---------------------------- MODULE Spec2Model ----------------------------
(***************************************************************************)
(* A model of the ordered n-ary tree of src/utility/NaryTree.js.           *)
(*                                                                         *)
(* The heap of NaryNode objects is the pair of sequences value/children,   *)
(* indexed by node identity (the order of construction).  A node that has  *)
(* been taken out of the tree stays in the heap, as it does for a caller   *)
(* that still holds a reference to it.                                     *)
(***************************************************************************)
EXTENDS Integers, Sequences, FiniteSets, TLC

\* ---------------------------------------------------------------- bounds
\* NaryNode objects constructed in one run
MaxNodes == 4
\* NaryNode objects constructed by the calls of parseMarkup on one QuickReact
MaxElementNodes == 5
\* structural mutations in one run (caps _modCount)
MaxModCount == 5
\* tags in a markup text given to parseMarkup
MaxTags == 4
\* the calls of parseMarkup on one QuickReact
MaxParses == 2
\* the empty fragments added to a text
MaxFragments == 1
\* the characters of a text written character by character
MaxChars == 4
\* the attribute tokens of a tag
MaxTokens == 2
\* the groups of a hooks attribute
MaxGroups == 2

\* Nodes are the positive integers (in the order of their construction); the
\* other things a variable or an argument of the tree can hold are integers
\* too, outside the nodes' range.
\* the objects stored in nodes; two of them, so that a value can repeat
ObjA == 101
ObjB == 102
Values == {ObjA, ObjB}
\* null / undefined, as an argument: the argument is absent
Null == 0
\* the value of _root before the first add (the constructor does not set it)
Undefined == -1
\* the `{}` a search loop's result variable starts as
EmptyObj == -2

VARIABLES
    value,      \* value[n]: NaryNode._value of node n
    children,   \* children[n]: NaryNode._children of node n (a sequence of nodes)
    root,       \* NaryTree._root: a node, Null or Undefined
    size,       \* NaryTree._size
    modCount,   \* NaryTree._modCount
    iter,       \* the generator object the caller holds (one at a time)
    result,     \* what the last call returned or threw
    parse,      \* the activation of QuickReact.parseMarkup, if there is one
    gen         \* the generation of the output, if it is under way

vars == <<value, children, root, size, modCount, iter, result, parse, gen>>
treeVars == <<value, children, root, size, modCount>>

\* every NaryNode constructed so far
Nodes == 1..Len(children)

Absent(x) == x = Null \/ x = Undefined

\* ------------------------------------------------------------- sequences
\* Array.prototype.indexOf, 1-based; 0 when x is not in s
IndexOf(s, x) ==
    IF \E i \in 1..Len(s) : s[i] = x
    THEN CHOOSE i \in 1..Len(s) : s[i] = x /\ \A j \in 1..(i - 1) : s[j] # x
    ELSE 0

\* Array.prototype.splice(i-1, 1): s without its i-th element
SpliceOut(s, i) == [j \in 1..(Len(s) - 1) |-> IF j < i THEN s[j] ELSE s[j + 1]]

\* Array.prototype.splice(pos, 0, x): x inserted so that it ends up at 0-based pos
SpliceIn(s, pos, x) ==
    [j \in 1..(Len(s) + 1) |->
        IF j <= pos THEN s[j] ELSE IF j = pos + 1 THEN x ELSE s[j - 1]]

Range(s) == {s[i] : i \in 1..Len(s)}

\* ------------------------------------------------------------ traversals
\* The nodes a levelOrderIterator(node) yields when it is run to its end with
\* nothing done between the pulls, in order, over the child lists ch.
RECURSIVE LevelWalk(_, _)
LevelWalk(queue, ch) ==
    IF queue = <<>> THEN <<>>
    ELSE <<Head(queue)>> \o LevelWalk(Tail(queue) \o ch[Head(queue)], ch)

LevelOrder(node, ch) == IF Absent(node) THEN <<>> ELSE LevelWalk(<<node>>, ch)

\* the nodes of the tree: those a traversal from _root reaches
TreeNodes == Range(LevelOrder(root, children))

\* no traversal in progress
NoIter == [kind |-> "none", status |-> "done", start |-> Null, startMod |-> 0,
           queue |-> <<>>, numNodes |-> 0, pending |-> Null, stack |-> <<>>]

\* parseMarkup is not running
NoParse == [phase |-> "idle", call |-> 0, string |-> TRUE, code |-> <<>>,
            elements |-> <<>>, stack |-> <<>>,
            i |-> 0, hasConfig |-> FALSE, hasApp |-> FALSE,
            error |-> "", names |-> <<>>]

\* no output is being generated
NoGen == [phase |-> "idle", attributes |-> <<>>, searchAttribute |-> <<>>,
          defaultName |-> <<>>, specifiedNameArray |-> <<>>, matchIndex |-> 0,
          i |-> 0, out |-> "", returned |-> 0, routines |-> <<>>,
          folder |-> {}, existsFlag |-> FALSE, confirmOverwrite |-> "undefined",
          confirmation |-> "", walks |-> 0, loop |-> 0, imported |-> <<>>,
          emitted |-> <<>>]

Ret(op, out, val) == [op |-> op, out |-> out, val |-> val]

\* a call that throws leaves the tree as it was
Throws(op, err) ==
    /\ result' = Ret(op, err, Null)
    /\ UNCHANGED <<treeVars, iter>>

\* new NaryNode(childObj): the heap with one more node, childless
NewNode == Len(children) + 1

\* ----------------------------------------------------------------- Init
Init ==
    /\ value = <<>>
    /\ children = <<>>
    /\ root = Undefined
    /\ size = 0
    /\ modCount = 0
    /\ iter = NoIter
    /\ result = Ret("new", "true", Null)
    /\ gen = NoGen
    /\ parse = NoParse

isEmpty == size = 0

\* -------------------------------------------------------------- inserts
\* a structural mutation may start: the model's caps are not reached
CanMutate == modCount < MaxModCount
CanAllocate ==
    /\ Len(children) < (IF parse.phase = "idle" THEN MaxNodes ELSE MaxElementNodes)
    /\ CanMutate

\* add with the new node put first in the root's list (unshift for push)
AddUnshifting(childObj) ==
    IF Absent(childObj) THEN Throws("add", "TypeError")
    ELSE IF isEmpty THEN
        /\ CanAllocate
        /\ value' = Append(value, childObj)
        /\ children' = Append(children, <<>>)
        /\ root' = NewNode
        /\ size' = size + 1
        /\ modCount' = modCount + 1
        /\ result' = Ret("add", "true", Null)
        /\ UNCHANGED iter
    ELSE IF Absent(root) THEN Throws("add", "TypeError")
    ELSE
        /\ CanAllocate
        /\ value' = Append(value, childObj)
        /\ children' = Append([children EXCEPT ![root] = <<NewNode>> \o @], <<>>)
        /\ size' = size + 1
        /\ modCount' = modCount + 1
        /\ result' = Ret("add", "true", Null)
        /\ UNCHANGED <<root, iter>>

\* add(childObj)
Add(childObj) ==
    IF Absent(childObj) THEN Throws("add", "TypeError")
    ELSE IF isEmpty THEN
        /\ CanAllocate
        /\ value' = Append(value, childObj)
        /\ children' = Append(children, <<>>)
        /\ root' = NewNode
        /\ size' = size + 1
        /\ modCount' = modCount + 1
        /\ result' = Ret("add", "true", Null)
        /\ UNCHANGED iter
    ELSE IF Absent(root) THEN Throws("add", "TypeError")
    ELSE
        /\ CanAllocate
        /\ value' = Append(value, childObj)
        /\ children' = Append([children EXCEPT ![root] = Append(@, NewNode)], <<>>)
        /\ size' = size + 1
        /\ modCount' = modCount + 1
        /\ result' = Ret("add", "true", Null)
        /\ UNCHANGED <<root, iter>>

\* InsertUnder without `this._size++`
InsertUnderUncounted(op, childObj, parent, newList) ==
    /\ CanAllocate
    /\ value' = Append(value, childObj)
    /\ children' = Append([children EXCEPT ![parent] = newList], <<>>)
    /\ size' = size
    /\ modCount' = modCount + 1
    /\ result' = Ret(op, "true", Null)
    /\ UNCHANGED <<root, iter>>

\* the part the three positional inserts share: the new node is put into
\* parent's child array, in place, by `place`
InsertUnder(op, childObj, parent, newList) ==
    /\ CanAllocate
    /\ value' = Append(value, childObj)
    /\ children' = Append([children EXCEPT ![parent] = newList], <<>>)
    /\ size' = size + 1
    /\ modCount' = modCount + 1
    /\ result' = Ret(op, "true", Null)
    /\ UNCHANGED <<root, iter>>

\* addAsFirstChild(childObj, parent)
AddAsFirstChild(childObj, parent) ==
    IF Absent(childObj) \/ parent \notin Nodes
    THEN Throws("addAsFirstChild", "TypeError")
    ELSE InsertUnder("addAsFirstChild", childObj, parent,
                     <<NewNode>> \o children[parent])

\* addAsLastChild(childObj, parent)
AddAsLastChild(childObj, parent) ==
    IF Absent(childObj) \/ parent \notin Nodes
    THEN Throws("addAsLastChild", "TypeError")
    ELSE InsertUnder("addAsLastChild", childObj, parent,
                     Append(children[parent], NewNode))

\* addAtPosition without the range check: splice() takes any position
AddAtPositionUnchecked(childObj, parent, position) ==
    IF Absent(childObj) \/ parent \notin Nodes
    THEN Throws("addAtPosition", "TypeError")
    ELSE InsertUnder("addAtPosition", childObj, parent,
                     IF position < 0 THEN <<NewNode>> \o children[parent]
                     ELSE IF position > Len(children[parent])
                     THEN Append(children[parent], NewNode)
                     ELSE SpliceIn(children[parent], position, NewNode))

\* addAtPosition(childObj, parent, position)
AddAtPosition(childObj, parent, position) ==
    IF Absent(childObj) \/ parent \notin Nodes
    THEN Throws("addAtPosition", "TypeError")
    ELSE IF position < 0 \/ position > Len(children[parent])
    THEN Throws("addAtPosition", "RangeError")
    ELSE InsertUnder("addAtPosition", childObj, parent,
                     SpliceIn(children[parent], position, NewNode))

\* clear()
ClearTree(op) ==
    /\ CanMutate
    /\ root' = Null
    /\ size' = 0
    /\ modCount' = modCount + 1
    /\ result' = Ret(op, "true", Null)
    /\ UNCHANGED <<value, children, iter>>

Clear == ClearTree("clear")

\* ------------------------------------------------------------- searches
\* the first node of the walk that is one of hits, as the `return` inside the
\* for-of loops of contains/get/getNode finds it; Null when there is none
FirstHit(walk, hits) ==
    IF \E i \in 1..Len(walk) : walk[i] \in hits
    THEN walk[CHOOSE i \in 1..Len(walk) :
                  walk[i] \in hits /\ \A j \in 1..(i - 1) : walk[j] \notin hits]
    ELSE Null

\* the node a loop without `break` is left holding: the last one of the walk
\* that is one of hits; `none` (the loop variable's initial value) otherwise
LastHit(walk, hits, none) ==
    IF \E i \in 1..Len(walk) : walk[i] \in hits
    THEN walk[CHOOSE i \in 1..Len(walk) :
                  walk[i] \in hits /\ \A j \in (i + 1)..Len(walk) : walk[j] \notin hits]
    ELSE none

\* getNode(obj), obj given
getNode(obj) ==
    LET Hit(n) == value[n] = obj
    IN  FirstHit(LevelOrder(root, children), {n \in Nodes : Hit(n)})

\* contains(obj, parentNode), obj given: obj is a node or a value
contains(obj, parentNode) ==
    LET rootNode == IF ~Absent(parentNode) THEN parentNode ELSE root
        Hit(n) == n = obj \/ value[n] = obj
    IN  FirstHit(LevelOrder(rootNode, children), {n \in Nodes : Hit(n)}) # Null

\* ------------------------------------------------------------ traversal
\* frames of a preOrderIterator: the generator of `node` and, once its for-of
\* loop has started, the array the loop iterates (arr = "live": the array
\* node owns now; arr = "old": an array node.children was assigned away
\* from, whose contents are snap) and the array iterator's index
Frame(node) == [node |-> node, arr |-> "none", snap |-> <<>>, idx |-> 0]

\* node.children = <a new array>, for the nodes of `replaced`: a for-of loop
\* suspended over the array a node owned keeps that array, which nothing
\* changes any more; old[n] is what it holds
Reassigned(it, replaced, old) ==
    [it EXCEPT !.stack =
        [i \in 1..Len(it.stack) |->
            IF it.stack[i].arr = "live" /\ it.stack[i].node \in replaced
            THEN [it.stack[i] EXCEPT !.arr = "old", !.snap = old[it.stack[i].node]]
            ELSE it.stack[i]]]

\* ------------------------------------------------------------- removals
\* Promoted with the concatenation the other way round
PromotedSiblingsFirst(own, rest) == rest \o own

\* this.root.children.concat(previousRoot.children): the child list of the
\* promoted node, from its own children and the old root's remaining ones
Promoted(own, rest) == own \o rest

\* remove() / removeNode() without a target: the root is removed
RemoveFirst(op) ==
    IF Absent(root) THEN Throws(op, "TypeError")
    ELSE IF Len(children[root]) = 0 THEN ClearTree(op)
    ELSE
        LET previousRoot == root
            newRoot == Head(children[previousRoot])
            rest == Tail(children[previousRoot])
        IN  /\ CanMutate
            /\ root' = newRoot
            /\ size' = size - 1
            /\ modCount' = modCount + 1
            /\ children' = [children EXCEPT ![previousRoot] = rest,
                                            ![newRoot] = Promoted(children[newRoot], rest)]
            /\ iter' = Reassigned(iter, {newRoot}, children)
            /\ result' = Ret(op, "true", Null)
            /\ UNCHANGED value

\* Detach without the splice: the removed node stays in its parent's list
DetachKept(list, index, removeNode, bubble, ch) ==
    IF bubble THEN list \o ch[removeNode]
    ELSE SpliceOut(list, index)

\* Detach with the removed node's children put where it was
DetachInPlace(list, index, removeNode, bubble, ch) ==
    IF bubble
    THEN SubSeq(list, 1, index - 1) \o ch[removeNode] \o SubSeq(list, index + 1, Len(list))
    ELSE SpliceOut(list, index)

\* Detach with shift() for splice(index, 1): the first child goes
DetachFirst(list, index, removeNode, bubble, ch) ==
    IF bubble THEN Tail(list) \o ch[removeNode]
    ELSE Tail(list)

\* One parent's part of the loops that take removeNode out of its parent's
\* child array: splice, and (bubble) the removed node's children appended
Detach(list, index, removeNode, bubble, ch) ==
    IF bubble THEN SpliceOut(list, index) \o ch[removeNode]
    ELSE SpliceOut(list, index)

\* `for (let node of this.levelOrderIterator(this._root))` with the splice in
\* its body: the iterator pushes node.children when it is resumed, that is
\* after the body ran, so a walk goes on over the changed child lists.
\* hits: how often the body's `if (index!=-1)` branch ran.
RECURSIVE SpliceLoop(_, _, _, _)
SpliceLoop(queue, ch, removeNode, bubble) ==
    IF queue = <<>> THEN [ch |-> ch, hits |-> 0]
    ELSE
        LET node == Head(queue)
            index == IndexOf(ch[node], removeNode)
            ch1 == IF index = 0 THEN ch
                   ELSE [ch EXCEPT ![node] = Detach(ch[node], index, removeNode, bubble, ch)]
            r == SpliceLoop(Tail(queue) \o ch1[node], ch1, removeNode, bubble)
        IN  [ch |-> r.ch, hits |-> r.hits + (IF index = 0 THEN 0 ELSE 1)]

\* the arrays the splice left behind when node.children was assigned the
\* concatenation: each child list without removeNode
Spliced(removeNode) ==
    [n \in Nodes |-> SelectSeq(children[n], LAMBDA c : c # removeNode)]

\* the removal loops of remove, removeNode (bubble: removeNode has children)
\* and of removeSubtree, removeNodeSubtree (bubble = FALSE)
RemoveLoop(op, removeNode, bubble) ==
    LET r == SpliceLoop(IF Absent(root) THEN <<>> ELSE <<root>>,
                        children, removeNode, bubble)
        replaced == IF bubble THEN {n \in Nodes : r.ch[n] # children[n]} ELSE {}
    IN  /\ r.hits > 0 => CanMutate
        /\ children' = r.ch
        /\ size' = size - r.hits
        /\ modCount' = modCount + r.hits
        /\ iter' = Reassigned(iter, replaced, Spliced(removeNode))
        /\ result' = Ret(op, "true", Null)
        /\ UNCHANGED <<value, root>>

\* the node remove(obj, parent) settles on, obj given: with a parent the last
\* match of the walk from parent ({} when there is none), without one
\* getNode's first match (null when there is none)
removeTarget(obj, parent) ==
    LET Hit(n) == value[n] = obj
    IN  IF ~Absent(parent)
        THEN LastHit(LevelOrder(parent, children), {n \in Nodes : Hit(n)}, EmptyObj)
        ELSE getNode(obj)

\* remove(obj, parent)
Remove(obj, parent) ==
    IF Absent(obj) THEN RemoveFirst("remove")
    ELSE
        LET removeNode == removeTarget(obj, parent)
        IN  IF removeNode = Null THEN Throws("remove", "ReferenceError")
            ELSE IF removeNode = root THEN RemoveFirst("remove")
            \* ({}).children is undefined: reading its length throws
            ELSE IF removeNode = EmptyObj THEN Throws("remove", "TypeError")
            ELSE RemoveLoop("remove", removeNode, Len(children[removeNode]) >= 1)

\* removeNode(naryNode)
RemoveNode(naryNode) ==
    IF Absent(naryNode) THEN RemoveFirst("removeNode")
    ELSE IF ~contains(naryNode, Null) THEN Throws("removeNode", "ReferenceError")
    ELSE IF naryNode = root THEN RemoveFirst("removeNode")
    ELSE RemoveLoop("removeNode", naryNode, Len(children[naryNode]) >= 1)

\* the node removeSubtree(obj, parentNode) settles on, obj given: the last
\* match of the walk from parentNode, or from the root ({}: none)
subtreeTarget(obj, parentNode) ==
    LET rootNode == IF ~Absent(parentNode) THEN parentNode ELSE root
        Hit(n) == value[n] = obj
    IN  LastHit(LevelOrder(rootNode, children), {n \in Nodes : Hit(n)}, EmptyObj)

\* removeSubtree(obj, parentNode)
RemoveSubtree(obj, parentNode) ==
    IF Absent(obj) THEN Throws("removeSubtree", "TypeError")
    ELSE
        LET removeNode == subtreeTarget(obj, parentNode)
        IN  IF removeNode = EmptyObj THEN Throws("removeSubtree", "ReferenceError")
            ELSE IF removeNode = root THEN ClearTree("removeSubtree")
            ELSE RemoveLoop("removeSubtree", removeNode, FALSE)

\* removeNodeSubtree(naryNode)
RemoveNodeSubtree(naryNode) ==
    LET rootNode == IF ~Absent(naryNode) THEN naryNode ELSE root
        Hit(n) == n = naryNode
        removeNode == LastHit(LevelOrder(rootNode, children), {n \in Nodes : Hit(n)}, EmptyObj)
    IN  IF removeNode = EmptyObj THEN Throws("removeNodeSubtree", "ReferenceError")
        ELSE IF removeNode = root THEN ClearTree("removeNodeSubtree")
        ELSE RemoveLoop("removeNodeSubtree", removeNode, FALSE)

\* ------------------------------------------------------------ generators
\* Calling a generator function runs none of its body: the object is created
\* suspended at the start, and the first next() runs the body to its first
\* yield.  startMod is not a field of the code's generators (they keep no
\* version): it records _modCount when the body starts, so that what the
\* traversals do after a mutation can be stated.

\* levelOrderIterator(node), the call
LevelOrderIterator(node) ==
    /\ iter' = [NoIter EXCEPT !.kind = "level", !.status = "created", !.start = node]
    /\ result' = Ret("levelOrderIterator", "generator", Null)
    /\ UNCHANGED treeVars

\* preOrderIterator(node), the call
PreOrderIterator(node) ==
    /\ iter' = [NoIter EXCEPT !.kind = "pre", !.status = "created", !.start = node]
    /\ result' = Ret("preOrderIterator", "generator", Null)
    /\ UNCHANGED treeVars

Yield(op, it, node) ==
    /\ iter' = it
    /\ result' = Ret(op, "yield", node)
    /\ UNCHANGED treeVars

Finish(op) ==
    /\ iter' = [iter EXCEPT !.status = "done", !.startMod = 0, !.queue = <<>>,
                            !.numNodes = 0, !.pending = Null, !.stack = <<>>]
    /\ result' = Ret(op, "done", Null)
    /\ UNCHANGED treeVars

\* LevelNext with the children put at the front of the queue (unshift for
\* push)
LevelNextChildrenFirst ==
    /\ iter.kind = "level"
    /\ IF iter.status = "created" THEN
           IF Absent(iter.start) THEN Finish("levelNext")
           ELSE Yield("levelNext",
                      [iter EXCEPT !.status = "running", !.startMod = modCount,
                                   !.queue = <<>>, !.numNodes = 1,
                                   !.pending = iter.start],
                      iter.start)
       ELSE IF iter.status = "running" THEN
           LET queue == children[iter.pending] \o iter.queue
               numNodes == iter.numNodes - 1
           IN  IF numNodes > 0 THEN
                   Yield("levelNext",
                         [iter EXCEPT !.queue = Tail(queue), !.numNodes = numNodes,
                                      !.pending = Head(queue)],
                         Head(queue))
               ELSE IF Len(queue) # 0 THEN
                   Yield("levelNext",
                         [iter EXCEPT !.queue = Tail(queue), !.numNodes = Len(queue),
                                      !.pending = Head(queue)],
                         Head(queue))
               ELSE Finish("levelNext")
       ELSE Finish("levelNext")

\* next() on the generator of levelOrderIterator: the body from where it is
\* suspended (the start, or the yield) to the next yield or to its end
LevelNext ==
    /\ iter.kind = "level"
    /\ IF iter.status = "created" THEN
           IF Absent(iter.start) THEN Finish("levelNext")
           ELSE Yield("levelNext",
                      [iter EXCEPT !.status = "running", !.startMod = modCount,
                                   !.queue = <<>>, !.numNodes = 1,
                                   !.pending = iter.start],
                      iter.start)
       ELSE IF iter.status = "running" THEN
           LET queue == iter.queue \o children[iter.pending]
               numNodes == iter.numNodes - 1
           IN  IF numNodes > 0 THEN
                   Yield("levelNext",
                         [iter EXCEPT !.queue = Tail(queue), !.numNodes = numNodes,
                                      !.pending = Head(queue)],
                         Head(queue))
               ELSE IF Len(queue) # 0 THEN
                   Yield("levelNext",
                         [iter EXCEPT !.queue = Tail(queue), !.numNodes = Len(queue),
                                      !.pending = Head(queue)],
                         Head(queue))
               ELSE Finish("levelNext")
       ELSE Finish("levelNext")

\* The frames of a preOrderIterator resumed after a yield: the innermost
\* generator goes on with its for-of loop (which starts now if it has not),
\* delegates to a new generator for the next child, which yields it, or ends
\* and hands control back to the generator that delegated to it.
RECURSIVE Resume(_)
Resume(stack) ==
    IF stack = <<>> THEN [stack |-> <<>>, node |-> Null]
    ELSE
        LET top == stack[Len(stack)]
            f == IF top.arr = "none" THEN [top EXCEPT !.arr = "live"] ELSE top
            arr == IF f.arr = "live" THEN children[f.node] ELSE f.snap
            below == SubSeq(stack, 1, Len(stack) - 1)
        IN  IF f.idx < Len(arr)
            THEN [stack |-> below \o <<[f EXCEPT !.idx = @ + 1], Frame(arr[f.idx + 1])>>,
                  node |-> arr[f.idx + 1]]
            ELSE Resume(below)

\* next() on the generator of preOrderIterator
PreNext ==
    /\ iter.kind = "pre"
    /\ IF iter.status = "created" THEN
           IF Absent(iter.start) THEN Finish("preNext")
           ELSE Yield("preNext",
                      [iter EXCEPT !.status = "running", !.startMod = modCount,
                                   !.stack = <<Frame(iter.start)>>],
                      iter.start)
       ELSE IF iter.status = "running" THEN
           LET r == Resume(iter.stack)
           IN  IF r.node = Null THEN Finish("preNext")
               ELSE Yield("preNext", [iter EXCEPT !.stack = r.stack], r.node)
       ELSE Finish("preNext")

\* --------------------------------------------------------------- queries
Returns(op, out, val) ==
    /\ result' = Ret(op, out, val)
    /\ UNCHANGED <<treeVars, iter>>

\* contains(obj, parentNode)
Contains(obj, parentNode) ==
    IF Absent(obj) THEN Throws("contains", "TypeError")
    ELSE Returns("contains", IF contains(obj, parentNode) THEN "true" ELSE "false", Null)

\* get(obj)
Get(obj) ==
    IF Absent(obj) THEN
        IF Absent(root) THEN Throws("get", "TypeError")
        ELSE Returns("get", "value", value[root])
    ELSE
        LET node == getNode(obj)
        IN  IF node = Null THEN Returns("get", "null", Null)
            ELSE Returns("get", "value", value[node])

\* getNode(obj)
GetNode(obj) ==
    IF Absent(obj) THEN Returns("getNode", "node", root)
    ELSE
        LET node == getNode(obj)
        IN  IF node = Null THEN Returns("getNode", "null", Null)
            ELSE Returns("getNode", "node", node)

\* size(naryNode); only `undefined` counts as no argument
Size(naryNode) ==
    IF naryNode = Undefined THEN Returns("size", "number", size)
    ELSE
        LET Hit(n) == n = naryNode
            sizeNode == LastHit(LevelOrder(root, children), {n \in Nodes : Hit(n)}, EmptyObj)
        IN  IF sizeNode = EmptyObj THEN Throws("size", "ReferenceError")
            ELSE IF sizeNode = root THEN Returns("size", "number", size)
            ELSE Returns("size", "number", Len(LevelOrder(sizeNode, children)))

Max(a, b) == IF a >= b THEN a ELSE b

\* height(naryNode) of a node
RECURSIVE heightOf(_)
heightOf(node) ==
    IF Len(children[node]) = 0 THEN 1
    ELSE
        LET RECURSIVE Reduce(_, _)
            Reduce(acc, i) ==
                IF i > Len(children[node]) THEN acc
                ELSE Reduce(Max(acc, heightOf(children[node][i])), i + 1)
        IN  1 + Reduce(-1, 1)

\* height(naryNode)
Height(naryNode) ==
    IF size = 0 THEN Returns("height", "number", 0)
    ELSE IF Absent(naryNode) THEN
        \* height(this._root) with no root calls itself without end
        IF Absent(root) THEN Throws("height", "RangeError")
        ELSE Returns("height", "number", heightOf(root))
    ELSE Returns("height", "number", heightOf(naryNode))

\* ------------------------------------------------------------ QuickReact
\* A string is the sequence of its characters, and an index into it is the
\* code's, counted from 0.

\* String.prototype.indexOf(ch, from), from >= 0
strIndexOf(s, ch, from) ==
    LET at == {k \in (from + 1)..Len(s) : s[k] = ch}
    IN  IF at = {} THEN -1 ELSE (CHOOSE k \in at : \A j \in at : k <= j) - 1

\* String.prototype.charAt(index): the empty string outside the string
charAt(s, index) == IF index >= 0 /\ index < Len(s) THEN s[index + 1] ELSE ""

\* String.prototype.slice(from, to), from >= 0 and to >= 0
slice(s, from, to) ==
    LET last == IF to < Len(s) THEN to ELSE Len(s)
    IN  IF last <= from THEN <<>> ELSE SubSeq(s, from + 1, last)

\* what the regular expressions' \s matches
IsSpace(c) == c \in {" ", "\t", "\n"}

\* the characters of s at the indices of keep, from index k on
RECURSIVE Picked(_, _, _)
Picked(s, keep, k) ==
    IF k > Len(s) THEN <<>>
    ELSE (IF k \in keep THEN <<s[k]>> ELSE <<>>) \o Picked(s, keep, k + 1)

\* replace(/\s+,\s+|\s+,|,\s+/g, ','): every run of white space next to a
\* comma goes
CommaSquash(s) ==
    LET InRun(a, b) == \A k \in a..b : IsSpace(s[k])
        ByComma(k) ==
            \E a \in 1..k, b \in k..Len(s) :
                /\ InRun(a, b)
                /\ \/ a > 1 /\ s[a - 1] = ","
                   \/ b < Len(s) /\ s[b + 1] = ","
    IN  Picked(s, {k \in 1..Len(s) : ~ByComma(k)}, 1)

\* replace(/\'|\"/g, '')
StripQuotes(s) == Picked(s, {k \in 1..Len(s) : s[k] \notin {"'", "\""}}, 1)

\* the runs of characters other than white space: what is left between the
\* single spaces once replace(/\s+/g, ' ') and trim() are done
RECURSIVE Words(_, _)
Words(s, word) ==
    LET done == IF word = <<>> THEN <<>> ELSE <<word>>
    IN  IF s = <<>> THEN done
        ELSE IF IsSpace(Head(s)) THEN done \o Words(Tail(s), <<>>)
        ELSE Words(Tail(s), Append(word, Head(s)))

\* componentAttributes: the tag's text normalized and split(' '); the empty
\* string splits into one empty token
split(component) ==
    LET words == Words(StripQuotes(CommaSquash(component)), <<>>)
    IN  IF words = <<>> THEN << <<>> >> ELSE words

\* the names the parser looks for
ConfigName == <<"C", "o", "n", "f", "i", "g">>
AppName == <<"A", "p", "p">>

\* String.prototype.startsWith(prefix)
startsWith(s, prefix) ==
    Len(s) >= Len(prefix) /\ SubSeq(s, 1, Len(prefix)) = prefix

\* An element's attributes are a Map: the keys in the order in which they
\* were first set, each with its value (true, or a string).
hasAttribute(attributes, key) ==
    \E k \in 1..Len(attributes) : attributes[k].key = key
getAttribute(attributes, key) ==
    attributes[CHOOSE k \in 1..Len(attributes) : attributes[k].key = key].value
setAttribute(attributes, key, kind, val) ==
    IF hasAttribute(attributes, key)
    THEN [k \in 1..Len(attributes) |->
            IF attributes[k].key = key
            THEN [key |-> key, kind |-> kind, value |-> val] ELSE attributes[k]]
    ELSE Append(attributes, [key |-> key, kind |-> kind, value |-> val])

\* the tokens that set a flag or the fetch method: token, key and value
Vocabulary ==
    {[token |-> <<"b", "o", "o", "t", "s", "t", "r", "a", "p">>,
      key |-> "react-bootstrap", kind |-> "boolean", value |-> <<>>],
     [token |-> <<"b", "o", "o", "t", "s", "t", "r", "a", "p", "=", "t", "r", "u", "e">>,
      key |-> "react-bootstrap", kind |-> "boolean", value |-> <<>>],
     [token |-> <<"r", "e", "a", "c", "t", "b", "o", "o", "t", "s", "t", "r", "a", "p">>,
      key |-> "react-bootstrap", kind |-> "boolean", value |-> <<>>],
     [token |-> <<"r", "e", "a", "c", "t", "b", "o", "o", "t", "s", "t", "r", "a", "p", "=", "t", "r", "u", "e">>,
      key |-> "react-bootstrap", kind |-> "boolean", value |-> <<>>],
     [token |-> <<"r", "e", "a", "c", "t", "-", "b", "o", "o", "t", "s", "t", "r", "a", "p">>,
      key |-> "react-bootstrap", kind |-> "boolean", value |-> <<>>],
     [token |-> <<"r", "e", "a", "c", "t", "-", "b", "o", "o", "t", "s", "t", "r", "a", "p", "=", "t", "r", "u", "e">>,
      key |-> "react-bootstrap", kind |-> "boolean", value |-> <<>>],
     [token |-> <<"f", "e", "t", "c", "h">>,
      key |-> "fetch", kind |-> "boolean", value |-> <<>>],
     [token |-> <<"f", "e", "t", "c", "h", "=", "t", "r", "u", "e">>,
      key |-> "fetch", kind |-> "boolean", value |-> <<>>],
     [token |-> <<"f", "e", "t", "c", "h", "=", "G", "E", "T">>,
      key |-> "fetch", kind |-> "string", value |-> <<"G", "E", "T">>],
     [token |-> <<"f", "e", "t", "c", "h", "=", "g", "e", "t">>,
      key |-> "fetch", kind |-> "string", value |-> <<"G", "E", "T">>],
     [token |-> <<"f", "e", "t", "c", "h", "=", "P", "O", "S", "T">>,
      key |-> "fetch", kind |-> "string", value |-> <<"P", "O", "S", "T">>],
     [token |-> <<"f", "e", "t", "c", "h", "=", "p", "o", "s", "t">>,
      key |-> "fetch", kind |-> "string", value |-> <<"P", "O", "S", "T">>],
     [token |-> <<"f", "e", "t", "c", "h", "=", "P", "U", "T">>,
      key |-> "fetch", kind |-> "string", value |-> <<"P", "U", "T">>],
     [token |-> <<"f", "e", "t", "c", "h", "=", "p", "u", "t">>,
      key |-> "fetch", kind |-> "string", value |-> <<"P", "U", "T">>],
     [token |-> <<"f", "e", "t", "c", "h", "=", "D", "E", "L", "E", "T", "E">>,
      key |-> "fetch", kind |-> "string", value |-> <<"D", "E", "L", "E", "T", "E">>],
     [token |-> <<"f", "e", "t", "c", "h", "=", "d", "e", "l", "e", "t", "e">>,
      key |-> "fetch", kind |-> "string", value |-> <<"D", "E", "L", "E", "T", "E">>],
     [token |-> <<"f", "e", "t", "c", "h", "=", "P", "A", "T", "C", "H">>,
      key |-> "fetch", kind |-> "string", value |-> <<"P", "A", "T", "C", "H">>],
     [token |-> <<"f", "e", "t", "c", "h", "=", "p", "a", "t", "c", "h">>,
      key |-> "fetch", kind |-> "string", value |-> <<"P", "A", "T", "C", "H">>],
     [token |-> <<"l", "i", "n", "k">>,
      key |-> "link", kind |-> "boolean", value |-> <<>>],
     [token |-> <<"l", "i", "n", "k", "=", "t", "r", "u", "e">>,
      key |-> "link", kind |-> "boolean", value |-> <<>>],
     [token |-> <<"s", "w", "i", "t", "c", "h">>,
      key |-> "switch", kind |-> "boolean", value |-> <<>>],
     [token |-> <<"s", "w", "i", "t", "c", "h", "=", "t", "r", "u", "e">>,
      key |-> "switch", kind |-> "boolean", value |-> <<>>],
     [token |-> <<"r", "o", "u", "t", "e">>,
      key |-> "route", kind |-> "boolean", value |-> <<>>],
     [token |-> <<"r", "o", "u", "t", "e", "=", "t", "r", "u", "e">>,
      key |-> "route", kind |-> "boolean", value |-> <<>>],
     [token |-> <<"r", "o", "u", "t", "e", "r">>,
      key |-> "router", kind |-> "boolean", value |-> <<>>],
     [token |-> <<"r", "o", "u", "t", "e", "r", "=", "t", "r", "u", "e">>,
      key |-> "router", kind |-> "boolean", value |-> <<>>],
     [token |-> <<"m", "a", "p">>,
      key |-> "map", kind |-> "boolean", value |-> <<>>],
     [token |-> <<"m", "a", "p", "=", "t", "r", "u", "e">>,
      key |-> "map", kind |-> "boolean", value |-> <<>>],
     [token |-> <<"f", "o", "r", "m">>,
      key |-> "form", kind |-> "boolean", value |-> <<>>],
     [token |-> <<"f", "o", "r", "m", "=", "t", "r", "u", "e">>,
      key |-> "form", kind |-> "boolean", value |-> <<>>]}

\* the hook names that are tokens of their own
HookNames ==
    {<<"u", "s", "e", "E", "f", "f", "e", "c", "t">>,
     <<"u", "s", "e", "S", "t", "a", "t", "e">>,
     <<"u", "s", "e", "R", "e", "d", "u", "c", "e", "r">>,
     <<"u", "s", "e", "C", "o", "n", "t", "e", "x", "t">>,
     <<"u", "s", "e", "L", "o", "c", "a", "t", "i", "o", "n">>,
     <<"u", "s", "e", "H", "i", "s", "t", "o", "r", "y">>,
     <<"u", "s", "e", "P", "a", "r", "a", "m", "s">>}
\* ... and those that take a multiplier
MultipliedHooks ==
    {<<"u", "s", "e", "E", "f", "f", "e", "c", "t", "*">>,
     <<"u", "s", "e", "S", "t", "a", "t", "e", "*">>,
     <<"u", "s", "e", "R", "e", "d", "u", "c", "e", "r", "*">>,
     <<"u", "s", "e", "C", "o", "n", "t", "e", "x", "t", "*">>}
EqTrue == <<"=", "t", "r", "u", "e">>
ForminputEq == <<"f", "o", "r", "m", "i", "n", "p", "u", "t", "=">>
ForminputsEq == <<"f", "o", "r", "m", "i", "n", "p", "u", "t", "s", "=">>
HooksEq == <<"h", "o", "o", "k", "s", "=">>

\* the value joined to the list that the attribute holds, or set as its value
Accumulated(attributes, key, val) ==
    IF hasAttribute(attributes, key)
    THEN setAttribute(attributes, key, "string",
                      getAttribute(attributes, key) \o <<",">> \o val)
    ELSE setAttribute(attributes, key, "string", val)

\* what one token after the name does to the attributes: the if statements
\* of the source, one after the other
Resolved(attributes, attribute) ==
    LET flagged ==
            IF \E v \in Vocabulary : v.token = attribute
            THEN LET v == CHOOSE v \in Vocabulary : v.token = attribute
                 IN  setAttribute(attributes, v.key, v.kind, v.value)
            ELSE attributes
        input ==
            IF startsWith(attribute, ForminputEq)
            THEN Accumulated(flagged, "forminputs", slice(attribute, 10, Len(attribute)))
            ELSE flagged
        inputs ==
            IF startsWith(attribute, ForminputsEq)
            THEN Accumulated(input, "forminputs", slice(attribute, 11, Len(attribute)))
            ELSE input
        again ==
            IF startsWith(attribute, ForminputEq)
            THEN Accumulated(inputs, "forminputs", slice(attribute, 5, Len(attribute)))
            ELSE inputs
        hooks ==
            IF startsWith(attribute, HooksEq)
            THEN Accumulated(again, "hooks", slice(attribute, 6, Len(attribute)))
            ELSE again
        named ==
            IF \E h \in HookNames : attribute = h \/ attribute = h \o EqTrue
            THEN Accumulated(hooks, "hooks",
                             CHOOSE h \in HookNames :
                                 attribute = h \/ attribute = h \o EqTrue)
            ELSE hooks
    IN  IF \E h \in MultipliedHooks : startsWith(attribute, h)
        THEN Accumulated(named, "hooks", attribute)
        ELSE named

\* the attributes after the tokens of a tag, the name apart
RECURSIVE Attributes(_, _)
Attributes(tokens, attributes) ==
    IF tokens = <<>> THEN attributes
    ELSE Attributes(Tail(tokens), Resolved(attributes, Head(tokens)))

\* the QuickReactElement of a tag: its name, type, subtype and attributes
Element(tokens, selfClosing, openComponent) ==
    [name |-> tokens[1],
     type |-> IF tokens[1] = ConfigName THEN "config" ELSE "component",
     subtype |-> IF selfClosing THEN "selfclosingtag"
                 ELSE IF openComponent THEN "opentag" ELSE "closetag",
     attributes |-> Attributes(Tail(tokens), <<>>)]

\* a lexer loop that leaves codeIndex where it is after the first tag, and so
\* takes that tag twice
RECURSIVE ScanRepeatingFirstTag(_, _, _)
ScanRepeatingFirstTag(code, codeIndex, elements) ==
    IF codeIndex >= Len(code) THEN [error |-> "", elements |-> elements, at |-> <<>>]
    ELSE
        LET startIndex == strIndexOf(code, "<", codeIndex)
            found == strIndexOf(code, ">", codeIndex)
            Turn(next) == [next EXCEPT !.at = <<codeIndex>> \o @]
            Last(error) == [error |-> error, elements |-> elements, at |-> <<codeIndex>>]
        IN  IF startIndex = -1 /\ found = -1
            THEN Last("")
            ELSE IF startIndex = -1
            THEN Last("missing <")
            ELSE IF found = -1
            THEN Last("missing >")
            ELSE IF charAt(code, startIndex + 1) = ">"
            THEN Turn(ScanRepeatingFirstTag(code, codeIndex + 2, elements))
            ELSE IF /\ charAt(code, startIndex + 1) = "/"
                    /\ charAt(code, startIndex + 2) = ">"
            THEN Turn(ScanRepeatingFirstTag(code, codeIndex + 3, elements))
            ELSE
                LET openComponent == charAt(code, startIndex + 1) # "/"
                    selfClosing == charAt(code, found - 1) = "/"
                    endIndex == IF selfClosing THEN found - 1 ELSE found
                    component == slice(code, startIndex + 1, endIndex)
                    past == IF selfClosing THEN endIndex + 2 ELSE endIndex + 1
                IN  Turn(ScanRepeatingFirstTag(
                             code, IF elements = <<>> THEN codeIndex ELSE past + 1,
                             Append(elements,
                                    Element(split(component), selfClosing,
                                            openComponent))))

\* the lexer loop from codeIndex on: the elements, or the error thrown; `at`
\* is the value of codeIndex at the start of every turn of the loop
RECURSIVE Scan(_, _, _)
Scan(code, codeIndex, elements) ==
    IF codeIndex >= Len(code) THEN [error |-> "", elements |-> elements, at |-> <<>>]
    ELSE
        LET startIndex == strIndexOf(code, "<", codeIndex)
            found == strIndexOf(code, ">", codeIndex)
            Turn(next) == [next EXCEPT !.at = <<codeIndex>> \o @]
            Last(error) == [error |-> error, elements |-> elements, at |-> <<codeIndex>>]
        IN  IF startIndex = -1 /\ found = -1
            THEN Last("")
            ELSE IF startIndex = -1
            THEN Last("missing <")
            ELSE IF found = -1
            THEN Last("missing >")
            ELSE IF charAt(code, startIndex + 1) = ">"
            THEN Turn(Scan(code, codeIndex + 2, elements))
            ELSE IF /\ charAt(code, startIndex + 1) = "/"
                    /\ charAt(code, startIndex + 2) = ">"
            THEN Turn(Scan(code, codeIndex + 3, elements))
            ELSE
                LET openComponent == charAt(code, startIndex + 1) # "/"
                    selfClosing == charAt(code, found - 1) = "/"
                    endIndex == IF selfClosing THEN found - 1 ELSE found
                    component == slice(code, startIndex + 1, endIndex)
                    past == IF selfClosing THEN endIndex + 2 ELSE endIndex + 1
                IN  Turn(Scan(code, past + 1,
                              Append(elements,
                                     Element(split(component), selfClosing,
                                             openComponent))))

\* The QuickReactElement objects, as the tree's nodes hold them and `===`
\* compares them.  Every call of parseMarkup makes its own: in the first
\* call the element of quickreactElementArray[k - 1] is ElemBase + k and the
\* Config element that parseMarkup makes itself is ElemBase; those of the
\* next call are ElemStride further.
ElemBase == 200
ElemStride == 20
SynthConfig == ElemBase + parse.call * ElemStride
ElemId(k) == SynthConfig + k
NameOf(elem) ==
    IF elem = SynthConfig THEN ConfigName ELSE parse.elements[elem - SynthConfig].name

\* the first of the elements after the i-th that is in `which`; 0 if none
FirstAfter(i, which) ==
    LET at == {k \in which : k > i}
    IN  IF at = {} THEN 0 ELSE CHOOSE k \in at : \A j \in at : k <= j

ConfigElements == {k \in 1..Len(parse.elements) : parse.elements[k].type = "config"}
AppElements ==
    {k \in 1..Len(parse.elements) :
        parse.elements[k].name = AppName /\ parse.elements[k].subtype = "opentag"}

\* parseMarkup throws: what the tree holds by then stays
ParseThrows(err, message, names) ==
    /\ parse' = [parse EXCEPT !.phase = "thrown", !.error = message, !.names = names]
    /\ result' = Ret("parseMarkup", err, Null)
    /\ UNCHANGED <<treeVars, iter>>

\* a part of parseMarkup that calls no method of the tree
ParseGoesOn(next) ==
    /\ parse' = next
    /\ UNCHANGED <<treeVars, iter, result>>

\* parseMarkup(code), from the call to the end of the lexer loop
Lex ==
    /\ parse.phase = "called"
    /\ IF ~parse.string
       THEN /\ parse' = [parse EXCEPT !.phase = "returned"]
            /\ result' = Ret("parseMarkup", "tree", Null)
            /\ UNCHANGED <<treeVars, iter>>
       ELSE LET r == Scan(parse.code, 0, <<>>)
            IN  IF r.error # "" THEN ParseThrows("SyntaxError", r.error, <<>>)
                ELSE ParseGoesOn([parse EXCEPT !.phase = "config",
                                               !.elements = r.elements])

\* the loop that adds the config elements to the tree, up to its next add();
\* after the loop, the Config element made when there was none (the stack
\* then gets quickreactElementArray[i] of the outer i, which is 0)
InstallConfig ==
    /\ parse.phase = "config"
    /\ LET k == FirstAfter(parse.i, ConfigElements)
           more == FirstAfter(k, ConfigElements) # 0
       IN  IF k # 0 THEN
               /\ Add(ElemId(k))
               /\ parse' = [parse EXCEPT !.stack = Append(@, ElemId(k)),
                                         !.hasConfig = TRUE,
                                         !.i = IF more THEN k ELSE 0,
                                         !.phase = IF more THEN "config" ELSE "app"]
           ELSE
               /\ Add(SynthConfig)
               /\ parse' = [parse EXCEPT
                              !.stack = Append(@, IF parse.elements = <<>>
                                                  THEN Undefined ELSE ElemId(1)),
                              !.i = 0,
                              !.phase = "app"]

\* the loop that puts each App open tag first under the root, up to its next
\* addAsFirstChild(); after the loop, the error when there was none
InstallApp ==
    /\ parse.phase = "app"
    /\ LET k == FirstAfter(parse.i, AppElements)
           more == FirstAfter(k, AppElements) # 0
       IN  IF k # 0 THEN
               /\ AddAsFirstChild(ElemId(k), root)
               /\ parse' = [parse EXCEPT !.stack = Append(@, ElemId(k)),
                                         !.hasApp = TRUE,
                                         !.i = IF more THEN k ELSE 0,
                                         !.phase = IF more THEN "app" ELSE "closers"]
           ELSE ParseThrows("SyntaxError", "missing App", <<>>)

\* the open-tag components that have no close-tag element of their name
Unclosed ==
    {k \in 1..Len(parse.elements) :
        /\ parse.elements[k].type = "component"
        /\ parse.elements[k].subtype = "opentag"
        /\ ~\E j \in 1..Len(parse.elements) :
              /\ parse.elements[j].name = <<"/">> \o parse.elements[k].name
              /\ parse.elements[j].type = "component"
              /\ parse.elements[j].subtype = "closetag"}

\* parseMarkup without the loop that looks for the closing tags
ClosersNotValidated ==
    /\ parse.phase = "closers"
    /\ ParseGoesOn([parse EXCEPT !.phase = "build", !.i = 0])

\* the loop that looks for the closing tag of every open tag
ValidateClosers ==
    /\ parse.phase = "closers"
    /\ LET k == FirstAfter(0, Unclosed)
       IN  IF k # 0
           THEN ParseThrows("SyntaxError", "missing closing tag",
                            <<parse.elements[k].name>>)
           ELSE ParseGoesOn([parse EXCEPT !.phase = "build", !.i = 0])

\* the loop that fills the tree, a self-closing component being pushed on
\* the stack like an open tag
BuildPushingSelfClosing ==
    /\ parse.phase = "build"
    /\ parse.i < Len(parse.elements)
    /\ LET e == parse.elements[parse.i + 1]
           elem == ElemId(parse.i + 1)
           popped == IF parse.stack = <<>> THEN Undefined
                     ELSE parse.stack[Len(parse.stack)]
           rest == IF parse.stack = <<>> THEN <<>>
                   ELSE SubSeq(parse.stack, 1, Len(parse.stack) - 1)
           parentNode == IF Absent(popped) THEN root ELSE getNode(popped)
           on == [parse EXCEPT !.i = @ + 1]
       IN  IF e.type = "component" /\ e.subtype \in {"opentag", "selfclosingtag"} THEN
               IF Absent(parentNode)
               THEN ParseThrows("TypeError", "value of null", <<>>)
               ELSE IF value[parentNode] # elem
               THEN /\ AddAsLastChild(elem, parentNode)
                    /\ parse' = [on EXCEPT !.stack = rest \o <<popped, elem>>]
               ELSE ParseGoesOn([on EXCEPT !.stack = rest \o <<popped, elem>>])
           ELSE IF e.type = "component" /\ e.subtype = "closetag" THEN
               IF Absent(popped)
               THEN ParseThrows("TypeError", "name of undefined", <<>>)
               ELSE IF <<"/">> \o NameOf(popped) # e.name
               THEN ParseThrows("SyntaxError", "overlap", <<NameOf(popped), e.name>>)
               ELSE ParseGoesOn([on EXCEPT !.stack = rest])
           ELSE ParseGoesOn(on)

\* one turn of the loop that fills the tree, for quickreactElementArray[i]
Build ==
    /\ parse.phase = "build"
    /\ parse.i < Len(parse.elements)
    /\ LET e == parse.elements[parse.i + 1]
           elem == ElemId(parse.i + 1)
           \* pop(): undefined from an empty stack
           popped == IF parse.stack = <<>> THEN Undefined
                     ELSE parse.stack[Len(parse.stack)]
           rest == IF parse.stack = <<>> THEN <<>>
                   ELSE SubSeq(parse.stack, 1, Len(parse.stack) - 1)
           \* getNode(): the root for undefined
           parentNode == IF Absent(popped) THEN root ELSE getNode(popped)
           on == [parse EXCEPT !.i = @ + 1]
       IN  IF e.type = "component" /\ e.subtype = "opentag" THEN
               IF Absent(parentNode)
               THEN ParseThrows("TypeError", "value of null", <<>>)
               ELSE IF value[parentNode] # elem
               THEN /\ AddAsLastChild(elem, parentNode)
                    /\ parse' = [on EXCEPT !.stack = rest \o <<popped, elem>>]
               ELSE ParseGoesOn([on EXCEPT !.stack = rest \o <<popped, elem>>])
           ELSE IF e.type = "component" /\ e.subtype = "selfclosingtag" THEN
               IF Absent(parentNode)
               THEN ParseThrows("TypeError", "parent is no node", <<>>)
               ELSE /\ AddAsLastChild(elem, parentNode)
                    /\ parse' = [on EXCEPT !.stack = Append(rest, popped)]
           ELSE IF e.type = "component" /\ e.subtype = "closetag" THEN
               IF Absent(popped)
               THEN ParseThrows("TypeError", "name of undefined", <<>>)
               ELSE IF <<"/">> \o NameOf(popped) # e.name
               THEN ParseThrows("SyntaxError", "overlap", <<NameOf(popped), e.name>>)
               ELSE ParseGoesOn([on EXCEPT !.stack = rest])
           ELSE ParseGoesOn(on)

\* return this._tree
ParseReturns ==
    /\ parse.phase = "build"
    /\ parse.i = Len(parse.elements)
    /\ parse' = [parse EXCEPT !.phase = "returned"]
    /\ result' = Ret("parseMarkup", "tree", Null)
    /\ UNCHANGED <<treeVars, iter>>

\* parseMarkup(code) called once more on the same QuickReact, the call
\* before having returned: the locals are new, this._tree is the tree that
\* the constructor made
ParseAgain(code) ==
    /\ parse.phase = "returned"
    /\ parse.call + 1 < MaxParses
    /\ parse' = [NoParse EXCEPT !.phase = "called", !.call = parse.call + 1,
                                !.code = code]
    /\ UNCHANGED <<treeVars, iter, result>>

\* ------------------------------------------------- QuickReact: multipliers
Digits == <<"0", "1", "2", "3", "4", "5", "6", "7", "8", "9">>
IsDigit(c) == \E k \in 1..Len(Digits) : Digits[k] = c
DigitValue(c) == (CHOOSE k \in 1..Len(Digits) : Digits[k] = c) - 1

UpperCase == <<"A", "B", "C", "D", "E", "F", "G", "H", "I", "J", "K", "L", "M",
               "N", "O", "P", "Q", "R", "S", "T", "U", "V", "W", "X", "Y", "Z">>
LowerCase == <<"a", "b", "c", "d", "e", "f", "g", "h", "i", "j", "k", "l", "m",
               "n", "o", "p", "q", "r", "s", "t", "u", "v", "w", "x", "y", "z">>

\* String.prototype.toLowerCase() and toUpperCase()
toLowerCase(s) ==
    [k \in 1..Len(s) |->
        IF \E j \in 1..Len(UpperCase) : UpperCase[j] = s[k]
        THEN LowerCase[CHOOSE j \in 1..Len(UpperCase) : UpperCase[j] = s[k]]
        ELSE s[k]]
toUpperCase(s) ==
    [k \in 1..Len(s) |->
        IF \E j \in 1..Len(LowerCase) : LowerCase[j] = s[k]
        THEN UpperCase[CHOOSE j \in 1..Len(LowerCase) : LowerCase[j] = s[k]]
        ELSE s[k]]

\* String.prototype.trim()
RECURSIVE trim(_)
trim(s) ==
    IF s = <<>> THEN s
    ELSE IF IsSpace(Head(s)) THEN trim(Tail(s))
    ELSE IF IsSpace(s[Len(s)]) THEN trim(SubSeq(s, 1, Len(s) - 1))
    ELSE s

\* String.prototype.split(','): the empty string splits into one empty entry
RECURSIVE splitAt(_, _, _)
splitAt(s, separator, entry) ==
    IF s = <<>> THEN <<entry>>
    ELSE IF Head(s) = separator THEN <<entry>> \o splitAt(Tail(s), separator, <<>>)
    ELSE splitAt(Tail(s), separator, Append(entry, Head(s)))

\* String.prototype.lastIndexOf(ch)
lastIndexOf(s, ch) ==
    LET at == {k \in 1..Len(s) : s[k] = ch}
    IN  IF at = {} THEN -1 ELSE (CHOOSE k \in at : \A j \in at : k >= j) - 1

\* String.prototype.slice(-n): the last n characters
sliceLast(s, n) == IF Len(s) <= n THEN s ELSE SubSeq(s, Len(s) - n + 1, Len(s))

\* parseInt(s) of a string without sign: the number its leading digits
\* write, white space before them skipped; NaN if it has none
RECURSIVE DigitsValue(_, _)
DigitsValue(s, sofar) ==
    IF s = <<>> \/ ~IsDigit(Head(s)) THEN sofar
    ELSE DigitsValue(Tail(s), 10 * sofar + DigitValue(Head(s)))
RECURSIVE isNaNparseInt(_)
isNaNparseInt(s) ==
    IF s = <<>> THEN TRUE
    ELSE IF IsSpace(Head(s)) THEN isNaNparseInt(Tail(s))
    ELSE ~IsDigit(Head(s))
RECURSIVE parseInt(_)
parseInt(s) ==
    IF IsSpace(Head(s)) THEN parseInt(Tail(s)) ELSE DigitsValue(s, 0)

\* '' + n, for a number n >= 0
RECURSIVE toString(_)
toString(n) ==
    IF n < 10 THEN <<Digits[n + 1]>> ELSE Append(toString(n \div 10), Digits[(n % 10) + 1])

\* The character class written [\s\t,;] in the template literal of the
\* regular expression: there \s is the letter s.
Separating == {"s", "\t", ",", ";"}
\* what `.` does not match
LineTerminators == {"\n", "\r"}

\* The regular expression
\*   F\*\d{2}|F\*\d{1}|F\[.+?\]|^F$|F[s\t,;]|[s\t,;]F[s\t,;]|[s\t,;]F$
\* tried at the k-th character of s: the length of its match, 0 if none.
MatchAt(s, k, searchAttribute) ==
    LET n == Len(searchAttribute)
        c(j) == IF j >= 1 /\ j <= Len(s) THEN s[j] ELSE ""
        Here(j) == j + n - 1 <= Len(s) /\ SubSeq(s, j, j + n - 1) = searchAttribute
        closing == {e \in (k + n + 2)..Len(s) :
                      /\ s[e] = "]"
                      /\ \A j \in (k + n + 1)..(e - 1) : s[j] \notin LineTerminators}
    IN  IF Here(k) /\ c(k + n) = "*" /\ IsDigit(c(k + n + 1)) /\ IsDigit(c(k + n + 2))
        THEN n + 3
        ELSE IF Here(k) /\ c(k + n) = "*" /\ IsDigit(c(k + n + 1))
        THEN n + 2
        ELSE IF Here(k) /\ c(k + n) = "[" /\ closing # {}
        THEN (CHOOSE e \in closing : \A j \in closing : e <= j) - k + 1
        ELSE IF k = 1 /\ s = searchAttribute
        THEN n
        ELSE IF Here(k) /\ c(k + n) \in Separating
        THEN n + 1
        ELSE IF c(k) \in Separating /\ Here(k + 1) /\ c(k + n + 1) \in Separating
        THEN n + 2
        ELSE IF c(k) \in Separating /\ Here(k + 1) /\ k + n = Len(s)
        THEN n + 1
        ELSE 0

\* value.match(regex), the regex global: the matches from the k-th character
\* on, one after the other; none is the null of the source
RECURSIVE match(_, _, _)
match(s, searchAttribute, k) ==
    IF k > Len(s) THEN <<>>
    ELSE LET length == MatchAt(s, k, searchAttribute)
         IN  IF length = 0 THEN match(s, searchAttribute, k + 1)
             ELSE <<SubSeq(s, k, k + length - 1)>>
                  \o match(s, searchAttribute, k + length)

\* the loop over the attributes: the match number matchIndex of the first
\* attribute whose string value has that many; '' if there is none
Matched(attributes, searchAttribute, matchIndex) ==
    LET matches(k) == match(attributes[k].value, searchAttribute, 1)
        with == {k \in 1..Len(attributes) :
                    /\ attributes[k].kind = "string"
                    /\ matchIndex < Len(matches(k))}
    IN  IF with = {} THEN <<>>
        ELSE matches(CHOOSE k \in with : \A j \in with : k <= j)[matchIndex + 1]

\* the three names of an entry
Named(default) ==
    LET lower == toLowerCase(default)
    IN  [default |-> default, lower |-> lower,
         mixed |-> toUpperCase(<<lower[1]>>) \o Tail(lower)]

\* the array after specifiedNameArray[i] = entries[i] for every i: an
\* assignment beyond the end makes the array longer, the elements after the
\* last assigned one stay
assigned(specifiedNameArray, entries) ==
    [k \in 1..(IF Len(entries) > Len(specifiedNameArray)
               THEN Len(entries) ELSE Len(specifiedNameArray)) |->
        IF k <= Len(entries) THEN entries[k] ELSE specifiedNameArray[k]]

\* the loop that names the entries of the list: it throws on the first empty
\* entry (lower[0] is undefined), the entries before it being named
NamedList(fieldNameArray, specifiedNameArray) ==
    LET empty == {k \in 1..Len(fieldNameArray) : trim(fieldNameArray[k]) = <<>>}
        first == IF empty = {} THEN 0 ELSE CHOOSE k \in empty : \A j \in empty : k <= j
        last == IF first = 0 THEN Len(fieldNameArray) ELSE first
    IN  [out |-> IF first = 0 THEN "number" ELSE "TypeError",
         specifiedNameArray |->
            assigned(specifiedNameArray,
                     [k \in 1..last |->
                        IF k = first THEN [default |-> <<>>, lower |-> <<>>, mixed |-> <<>>]
                        ELSE Named(trim(fieldNameArray[k]))])]

\* the loop that names num instances after defaultName
NamedDefault(defaultName, num, specifiedNameArray) ==
    assigned(specifiedNameArray,
             [k \in 1..num |-> Named(trim(defaultName) \o toString(k))])

\* a multiplier that reads one digit only
multiplierOfOneDigit(attribute) ==
    IF /\ Len(attribute) >= 3
       /\ charAt(attribute, Len(attribute) - 2) = "*"
       /\ ~isNaNparseInt(sliceLast(attribute, 1))
    THEN parseInt(sliceLast(attribute, 1))
    ELSE IF /\ Len(attribute) >= 4
            /\ charAt(attribute, Len(attribute) - 3) = "*"
            /\ ~isNaNparseInt(sliceLast(attribute, 1))
    THEN parseInt(sliceLast(attribute, 1))
    ELSE 1

\* a multiplier that counts nothing where no number is written
multiplierWithoutDefault(attribute) ==
    IF /\ Len(attribute) >= 4
       /\ charAt(attribute, Len(attribute) - 3) = "*"
       /\ ~isNaNparseInt(sliceLast(attribute, 2))
    THEN parseInt(sliceLast(attribute, 2))
    ELSE IF /\ Len(attribute) >= 3
            /\ charAt(attribute, Len(attribute) - 2) = "*"
            /\ ~isNaNparseInt(sliceLast(attribute, 1))
    THEN parseInt(sliceLast(attribute, 1))
    ELSE 0

\* the repeat count that the matched text asks for
multiplier(attribute) ==
    IF /\ Len(attribute) >= 4
       /\ charAt(attribute, Len(attribute) - 3) = "*"
       /\ ~isNaNparseInt(sliceLast(attribute, 2))
    THEN parseInt(sliceLast(attribute, 2))
    ELSE IF /\ Len(attribute) >= 3
            /\ charAt(attribute, Len(attribute) - 2) = "*"
            /\ ~isNaNparseInt(sliceLast(attribute, 1))
    THEN parseInt(sliceLast(attribute, 1))
    ELSE 1

\* what _findMultiplier returns or throws, and the array after
Returned(n, specifiedNameArray) ==
    [out |-> "number", returned |-> n, specifiedNameArray |-> specifiedNameArray]

\* the end of the list branch: return specifiedNameArray.length
ReturnedList(named) ==
    IF named.out = "TypeError"
    THEN [out |-> "TypeError", returned |-> 0,
          specifiedNameArray |-> named.specifiedNameArray]
    ELSE Returned(Len(named.specifiedNameArray), named.specifiedNameArray)

\* the end of the other branch: the names after defaultName, return num
ReturnedDefault(num, defaultName, specifiedNameArray) ==
    Returned(num, NamedDefault(defaultName, num, specifiedNameArray))

\* _findMultiplier after its loop over the attributes, `attribute` being the
\* matched text or ''
Multiplied(attribute, specifiedNameArray, defaultName) ==
    IF attribute = <<>> THEN Returned(0, specifiedNameArray)
    ELSE IF strIndexOf(attribute, "[", 0) # -1 /\ strIndexOf(attribute, "]", 0) # -1
    THEN ReturnedList(
            NamedList(splitAt(slice(attribute, strIndexOf(attribute, "[", 0) + 1,
                                    lastIndexOf(attribute, "]")),
                              ",", <<>>),
                      specifiedNameArray))
    ELSE ReturnedDefault(multiplier(attribute), defaultName, specifiedNameArray)

\* _findMultiplier(component, searchAttribute, specifiedNameArray,
\* defaultName, matchIndex): what it returns or throws, and the array after
findMultiplier(attributes, searchAttribute, specifiedNameArray, defaultName, matchIndex) ==
    IF Len(attributes) <= 0 THEN Returned(0, specifiedNameArray)
    ELSE Multiplied(Matched(attributes, searchAttribute, matchIndex),
                    specifiedNameArray, defaultName)

\* The loop of a routine that writes one instance per name, as in
\* output_app for useState:
\*     specifiedNameArray=[]; matchIndex=0;
\*     while (_findMultiplier(...)!==0) {
\*         for (let i=0; i<_findMultiplier(...); i++) { ... }
\*         matchIndex++;
\*     }
\* the call of _findMultiplier that the tests of the loop make
Found ==
    findMultiplier(gen.attributes, gen.searchAttribute, gen.specifiedNameArray,
                   gen.defaultName, gen.matchIndex)

\* after the test of the while
WhileTested(found) ==
    [gen EXCEPT !.specifiedNameArray = found.specifiedNameArray,
                !.out = found.out,
                !.returned = found.returned,
                !.i = 0,
                !.phase = IF found.out = "TypeError" THEN "thrown"
                          ELSE IF found.returned # 0 THEN "for" ELSE "done"]

\* after the test of the for: the body and i++, or matchIndex++ after the
\* last turn
ForTested(found) ==
    [gen EXCEPT !.specifiedNameArray = found.specifiedNameArray,
                !.out = found.out,
                !.returned = found.returned,
                !.i = IF found.out = "number" /\ gen.i < found.returned
                      THEN gen.i + 1 ELSE 0,
                !.matchIndex = IF found.out = "number" /\ gen.i >= found.returned
                               THEN gen.matchIndex + 1 ELSE gen.matchIndex,
                !.phase = IF found.out = "TypeError" THEN "thrown"
                          ELSE IF gen.i < found.returned THEN "for" ELSE "while"]

\* The test of the while: a call of _findMultiplier.
WhileTest ==
    /\ gen.phase = "while"
    /\ gen' = WhileTested(Found)
    /\ UNCHANGED <<treeVars, iter, result, parse>>

\* The test of the for, another call of _findMultiplier, and what follows it.
ForTest ==
    /\ gen.phase = "for"
    /\ gen' = ForTested(Found)
    /\ UNCHANGED <<treeVars, iter, result, parse>>

\* ------------------------------------- output_app and output_component
\* The two routines have the same statements for the imports from
\* react-router-dom and for the instances of useContext and useReducer; gen
\* holds the element given to the routine (its attributes), the tokens of
\* the router import and the Provider tags written, in the order written.
UseContext == <<"u", "s", "e", "C", "o", "n", "t", "e", "x", "t">>
UseReducer == <<"u", "s", "e", "R", "e", "d", "u", "c", "e", "r">>
SampleContext == <<"S", "a", "m", "p", "l", "e", "C", "o", "n", "t", "e", "x", "t">>
SampleDispatchContext ==
    <<"S", "a", "m", "p", "l", "e", "D", "i", "s", "p", "a", "t", "c", "h",
      "C", "o", "n", "t", "e", "x", "t">>
SampleReducer == <<"s", "a", "m", "p", "l", "e", "R", "e", "d", "u", "c", "e", "r">>

\* hooks.indexOf(text) != -1
includes(s, text) ==
    \E k \in 1..(Len(s) - Len(text) + 1) : SubSeq(s, k, k + Len(text) - 1) = text

\* hooks !== undefined && hooks.indexOf(text) != -1
hooksInclude(attributes, text) ==
    /\ hasAttribute(attributes, "hooks")
    /\ includes(getAttribute(attributes, "hooks"), text)

\* getAttribute(key) === true
isTrue(attributes, key) ==
    \E k \in 1..Len(attributes) :
        attributes[k].key = key /\ attributes[k].kind = "boolean"

\* tokenList of the import from react-router-dom: the hooks of the router
\* that hooks names, then the flags that are true
RouterTokens(attributes) ==
    LET hooks == getAttribute(attributes, "hooks")
        Hook(text, token) == IF includes(hooks, text) THEN <<token>> ELSE <<>>
        Flag(key, token) == IF isTrue(attributes, key) THEN <<token>> ELSE <<>>
    IN  Hook(<<"u", "s", "e", "L", "o", "c", "a", "t", "i", "o", "n">>, "useLocation")
        \o Hook(<<"u", "s", "e", "H", "i", "s", "t", "o", "r", "y">>, "useHistory")
        \o Hook(<<"u", "s", "e", "P", "a", "r", "a", "m", "s">>, "useParams")
        \o Flag("switch", "Switch") \o Flag("route", "Route") \o Flag("link", "Link")

\* The loops of a routine over the instances of useContext and of
\* useReducer, in the order of the source: the contexts exported, the
\* reducers, the Provider tags opened, the Provider tags closed.  (The loops
\* for useState, for useEffect and for the fields of a form are entered only
\* for an element whose hooks name useState or useEffect or that has form.)
Loops ==
    <<[searchAttribute |-> UseContext, defaultName |-> SampleContext, writes |-> "export"],
      [searchAttribute |-> UseReducer, defaultName |-> SampleDispatchContext, writes |-> "export"],
      [searchAttribute |-> UseReducer, defaultName |-> SampleReducer, writes |-> "reducer"],
      [searchAttribute |-> UseContext, defaultName |-> SampleContext, writes |-> "open"],
      [searchAttribute |-> UseReducer, defaultName |-> SampleDispatchContext, writes |-> "open"],
      [searchAttribute |-> UseReducer, defaultName |-> SampleDispatchContext, writes |-> "close"],
      [searchAttribute |-> UseContext, defaultName |-> SampleContext, writes |-> "close"]>>

\* the routine goes on to its loops from the one numbered `loop`: the first
\* whose if holds is entered, specifiedNameArray=[] and matchIndex=0; after
\* the last the routine returns its output
RECURSIVE Entered(_, _)
Entered(on, loop) ==
    IF loop > Len(Loops) THEN [on EXCEPT !.phase = "done", !.loop = loop]
    ELSE IF hooksInclude(on.attributes, Loops[loop].searchAttribute)
    THEN [on EXCEPT !.phase = "while", !.loop = loop,
                    !.searchAttribute = Loops[loop].searchAttribute,
                    !.defaultName = Loops[loop].defaultName,
                    !.specifiedNameArray = <<>>, !.matchIndex = 0, !.i = 0]
    ELSE Entered(on, loop + 1)

\* the routine throws
Failed(on) == [on EXCEPT !.phase = "thrown", !.out = "TypeError"]

\* gen after a call of _findMultiplier
Multiplying(found) ==
    [gen EXCEPT !.specifiedNameArray = found.specifiedNameArray,
                !.out = found.out, !.returned = found.returned]

\* The start of a routine, up to its first loop: the import from
\* react-router-dom is written for an element that has hooks or one of the
\* three flags, and hooks.indexOf is called whether hooks is defined or not.
OutputImports ==
    /\ gen.phase = "imports"
    /\ gen' = IF \E key \in {"hooks", "switch", "route", "link"} :
                    hasAttribute(gen.attributes, key)
              THEN IF ~hasAttribute(gen.attributes, "hooks")
                   THEN Failed(gen)
                   ELSE Entered([gen EXCEPT !.imported = RouterTokens(gen.attributes)], 1)
              ELSE Entered(gen, 1)
    /\ UNCHANGED <<treeVars, iter, result, parse>>

\* The test of the while of a loop: after it the for that counts up, the
\* initialisation of the for that counts down, or the next loop.
LoopWhile ==
    /\ gen.phase = "while"
    /\ gen.loop > 0
    /\ gen' = IF Found.out = "TypeError" THEN Failed(Multiplying(Found))
              ELSE IF Found.returned = 0 THEN Entered(Multiplying(Found), gen.loop + 1)
              ELSE [Multiplying(Found) EXCEPT
                        !.phase = IF Loops[gen.loop].writes = "close"
                                  THEN "init" ELSE "up"]
    /\ UNCHANGED <<treeVars, iter, result, parse>>

\* for (let i=0; i<_findMultiplier(...); i++): the test, a call of
\* _findMultiplier, then the body, which reads specifiedNameArray[i], and
\* i++; or matchIndex++ after the last turn
LoopUp ==
    /\ gen.phase = "up"
    /\ gen' = IF Found.out = "TypeError" THEN Failed(Multiplying(Found))
              ELSE IF gen.i < Found.returned
              THEN [Multiplying(Found) EXCEPT
                        !.i = gen.i + 1,
                        !.emitted =
                            IF Loops[gen.loop].writes = "open"
                            THEN Append(@, [tag |-> "open",
                                            name |-> Found.specifiedNameArray[gen.i + 1].mixed])
                            ELSE @]
              ELSE [Multiplying(Found) EXCEPT
                        !.i = 0, !.matchIndex = gen.matchIndex + 1, !.phase = "while"]
    /\ UNCHANGED <<treeVars, iter, result, parse>>

\* for (let i=_findMultiplier(...); i>0; i--): the initialisation
LoopDownFrom ==
    /\ gen.phase = "init"
    /\ gen' = IF Found.out = "TypeError" THEN Failed(Multiplying(Found))
              ELSE [Multiplying(Found) EXCEPT !.i = Found.returned, !.phase = "down"]
    /\ UNCHANGED <<treeVars, iter, result, parse>>

\* ... its test, then the body, which reads specifiedNameArray[i].mixed and
\* throws if the array has no element i, and i--; or matchIndex++
LoopDown ==
    /\ gen.phase = "down"
    /\ gen' = IF gen.i > 0
              THEN IF gen.i + 1 > Len(gen.specifiedNameArray)
                   THEN Failed(gen)
                   ELSE [gen EXCEPT
                            !.i = gen.i - 1,
                            !.emitted =
                                Append(@, [tag |-> "close",
                                           name |-> gen.specifiedNameArray[gen.i + 1].mixed])]
              ELSE [gen EXCEPT !.matchIndex = gen.matchIndex + 1, !.phase = "while"]
    /\ UNCHANGED <<treeVars, iter, result, parse>>

\* ------------------------------------------------- generateProjectFiles
\* the type of the element with identity elem
TypeOf(elem) ==
    IF elem = SynthConfig THEN "config" ELSE parse.elements[elem - SynthConfig].type

\* tree.getByObjectProperty({'_name': name}): the first element in level
\* order with that name, or null
getByName(name) ==
    LET walk == LevelOrder(root, children)
        hits == {k \in 1..Len(walk) : NameOf(value[walk[k]]) = name}
    IN  IF hits = {} THEN Null
        ELSE value[walk[CHOOSE k \in hits : \A j \in hits : k <= j]]

\* a selection that looks at the type first
RoutineByType(elem) ==
    IF TypeOf(elem) = "component" THEN "output_component"
    ELSE IF NameOf(elem) = ConfigName THEN "output_index"
    ELSE IF NameOf(elem) = AppName THEN "output_app"
    ELSE "none"

\* the routine that _handleFileGeneration applies to a node's element
Routine(elem) ==
    IF NameOf(elem) = ConfigName THEN "output_index"
    ELSE IF NameOf(elem) = AppName THEN "output_app"
    ELSE IF TypeOf(elem) = "component" THEN "output_component"
    ELSE "none"

\* what generateProjectFiles makes in the folder of the document: three
\* directories, the two files of the project, and the files of the components
Directories == {"components", "images", "assets"}
ProjectFiles == {"index_qr.js", "App_qr.js"}
ComponentFiles == {"components/index.js"}

\* the file that a routine's output is written to
FileOf(routine) ==
    IF routine = "output_index" THEN {"index_qr.js"}
    ELSE IF routine = "output_app" THEN {"App_qr.js"}
    ELSE IF routine = "output_component" THEN ComponentFiles
    ELSE {}

\* _handleFileGeneration is called: the iterator is created
HandleFileGeneration(on) ==
    /\ LevelOrderIterator(root)
    /\ gen' = [on EXCEPT !.phase = "walk", !.walks = @ + 1]

\* generateProjectFiles(tree) with the tree that parseMarkup returned, up to
\* its return: the Config element is looked up (and its hasAttribute called,
\* a TypeError on null), the missing directories are made, existsFlag is set
\* when a directory or a project file was there, and only then the files are
\* generated, at once or after the prompt
GenerateProjectFiles ==
    /\ parse.phase = "returned"
    /\ gen.phase = "idle"
    /\ IF getByName(ConfigName) = Null
       THEN /\ gen' = [gen EXCEPT !.phase = "thrown", !.out = "TypeError"]
            /\ UNCHANGED <<treeVars, iter, result>>
       ELSE LET existsFlag == gen.folder \cap (Directories \cup ProjectFiles) # {}
                on == [gen EXCEPT !.folder = @ \cup Directories,
                                  !.existsFlag = existsFlag]
            IN  IF ~existsFlag
                THEN /\ gen' = [on EXCEPT !.phase = "returned"]
                     /\ UNCHANGED <<treeVars, iter, result>>
                ELSE IF gen.confirmOverwrite = "true"
                THEN /\ gen' = [on EXCEPT !.phase = "prompt"]
                     /\ UNCHANGED <<treeVars, iter, result>>
                ELSE HandleFileGeneration(on)
    /\ UNCHANGED parse

\* the user answers showInformationMessage, or dismisses it (undefined)
Confirm(confirmation) ==
    /\ gen.phase = "prompt"
    /\ LET on == [gen EXCEPT !.confirmation = confirmation]
       IN  IF confirmation = "Proceed" THEN HandleFileGeneration(on)
           ELSE /\ gen' = [on EXCEPT !.phase = IF confirmation = "Always Proceed"
                                               THEN "update" ELSE "returned"]
                /\ UNCHANGED <<treeVars, iter, result>>
    /\ UNCHANGED parse

\* the update of the setting is done: its then() generates the files
Updated ==
    /\ gen.phase = "update"
    /\ HandleFileGeneration([gen EXCEPT !.confirmOverwrite = "false"])
    /\ UNCHANGED parse

\* one turn of for (let node of treeIterator): the next node is pulled and
\* the routine for its element writes its file; the routines read the
\* element and node.children (the elements of the texts generated here have
\* no attributes, and the routines enter none of their loops for them)
GenerateNode ==
    /\ gen.phase = "walk"
    /\ LevelNext
    /\ gen' = IF result'.out = "yield"
              THEN [gen EXCEPT !.routines =
                        Append(@, [node |-> result'.val,
                                   routine |-> Routine(value[result'.val])]),
                               !.folder = @ \cup FileOf(Routine(value[result'.val]))]
              ELSE [gen EXCEPT !.phase = "generated"]
    /\ UNCHANGED parse

\* ------------------------------------------------------------------ Next
\* a method of the tree called by its user, no parseMarkup being under way
Call(Method) == Method /\ UNCHANGED <<parse, gen>>

\* What a caller passes.  An object to store or to look for: the two objects
\* are interchangeable, so the first node constructed holds ObjA.
Objects == IF Len(value) = 0 THEN {ObjA} ELSE Values
\* ... or nothing
ValueArgs == Objects \cup {Null}
\* A node: any node constructed so far, in the tree or not; or nothing
NodeArgs == Nodes \cup {Null}
\* ... or something that is not a NaryNode: nothing, or a stored object
ParentArgs == NodeArgs \cup {ObjA}
\* A position of parent's child list; or one too small or too large
InRange(parent) == 0..Len(children[parent])
Positions(parent) ==
    IF parent \in Nodes THEN (-1)..(Len(children[parent]) + 1) ELSE {0}

\* Every call that changes the tree, its arguments of the kinds the methods
\* are written for: an object, a node (of the tree or not), a position of
\* the list; the target of a removal may be left out.
Next ==
    \/ \E v \in Objects : Call(Add(v))
    \/ \E v \in Objects, p \in Nodes : Call(AddAsFirstChild(v, p))
    \/ \E v \in Objects, p \in Nodes : Call(AddAsLastChild(v, p))
    \/ \E v \in Objects, p \in Nodes : \E pos \in InRange(p) : Call(AddAtPosition(v, p, pos))
    \/ \E v \in ValueArgs, p \in NodeArgs : Call(Remove(v, p))
    \/ \E n \in NodeArgs : Call(RemoveNode(n))
    \/ Call(Clear)
    \/ \E v \in Objects, p \in NodeArgs : Call(RemoveSubtree(v, p))
    \/ \E n \in Nodes : Call(RemoveNodeSubtree(n))

Spec == Init /\ [][Next]_vars

\* add, addAs*, addAtPosition, remove and removeNode, the parents being nodes
\* of the tree
NextInTree ==
    \/ \E v \in Objects : Call(Add(v))
    \/ \E v \in Objects, p \in TreeNodes : Call(AddAsFirstChild(v, p))
    \/ \E v \in Objects, p \in TreeNodes : Call(AddAsLastChild(v, p))
    \/ \E v \in Objects, p \in TreeNodes :
          \E pos \in InRange(p) : Call(AddAtPosition(v, p, pos))
    \/ \E v \in ValueArgs, p \in TreeNodes \cup {Null} : Call(Remove(v, p))
    \/ \E n \in NodeArgs : Call(RemoveNode(n))

SpecInTree == Init /\ [][NextInTree]_vars

\* The traversals, and the tree changed while the caller holds one.  No
\* generator reads a node's value: every node holds the same object here.
NextTraversal ==
    \/ Call(Add(ObjA))
    \/ \E p \in Nodes : Call(AddAsFirstChild(ObjA, p))
    \/ \E p \in Nodes : Call(AddAsLastChild(ObjA, p))
    \/ \E p \in Nodes : \E pos \in InRange(p) : Call(AddAtPosition(ObjA, p, pos))
    \/ \E v \in {ObjA, Null}, p \in NodeArgs : Call(Remove(v, p))
    \/ \E n \in NodeArgs : Call(RemoveNode(n))
    \/ Call(Clear)
    \/ \E p \in NodeArgs : Call(RemoveSubtree(ObjA, p))
    \/ \E n \in Nodes : Call(RemoveNodeSubtree(n))
    \/ \E n \in NodeArgs : Call(LevelOrderIterator(n))
    \/ \E n \in NodeArgs : Call(PreOrderIterator(n))
    \/ Call(LevelNext)
    \/ Call(PreNext)

SpecTraversal == Init /\ [][NextTraversal]_vars

\* The level-order traversal of the trees that the inserts build (every
\* shape of tree), from the root or from another node, an insert being
\* possible between two pulls
NextLevelOrder ==
    \/ Call(Add(ObjA))
    \/ \E p \in Nodes : Call(AddAsFirstChild(ObjA, p))
    \/ \E p \in Nodes : Call(AddAsLastChild(ObjA, p))
    \/ \E n \in NodeArgs : Call(LevelOrderIterator(n))
    \/ Call(LevelNext)

SpecLevelOrder == Init /\ [][NextLevelOrder]_vars

\* the calls with an argument missing or a position out of range as well
NextAnyArgs ==
    \/ \E v \in ValueArgs : Call(Add(v))
    \/ \E v \in ValueArgs, p \in ParentArgs : Call(AddAsFirstChild(v, p))
    \/ \E v \in ValueArgs, p \in ParentArgs : Call(AddAsLastChild(v, p))
    \/ \E v \in ValueArgs, p \in ParentArgs :
          \E pos \in Positions(p) : Call(AddAtPosition(v, p, pos))
    \/ \E v \in ValueArgs, p \in NodeArgs : Call(Remove(v, p))
    \/ \E n \in NodeArgs : Call(RemoveNode(n))
    \/ Call(Clear)
    \/ \E v \in ValueArgs, p \in NodeArgs : Call(RemoveSubtree(v, p))
    \/ \E n \in NodeArgs : Call(RemoveNodeSubtree(n))

SpecAnyArgs == Init /\ [][NextAnyArgs]_vars

\* The inserts with any argument, on trees that clear() and the removal of
\* the root empty again.  Only add() is given both objects: a positional
\* insert treats every object alike.
NextInsert ==
    \/ \E v \in ValueArgs : Call(Add(v))
    \/ \E v \in {ObjA, Null}, p \in ParentArgs : Call(AddAsFirstChild(v, p))
    \/ \E v \in {ObjA, Null}, p \in ParentArgs : Call(AddAsLastChild(v, p))
    \/ \E v \in {ObjA, Null}, p \in ParentArgs :
          \E pos \in Positions(p) : Call(AddAtPosition(v, p, pos))
    \/ Call(Remove(Null, Null))
    \/ Call(Clear)

SpecInsert == Init /\ [][NextInsert]_vars

\* the read-only queries, between the calls that change the tree
NextQuery ==
    \/ Next
    \/ \E v \in ValueArgs \cup Nodes, p \in NodeArgs : Call(Contains(v, p))
    \/ \E v \in ValueArgs : Call(Get(v))
    \/ \E v \in ValueArgs : Call(GetNode(v))
    \/ \E n \in NodeArgs \cup {Undefined} : Call(Size(n))
    \/ \E n \in NodeArgs : Call(Height(n))

SpecQuery == Init /\ [][NextQuery]_vars

\* The markup texts: up to MaxTags tags, written one after the other with
\* nothing between them or with one space between them.
Open(name) == <<"<">> \o name \o <<">">>
Close(name) == <<"<", "/">> \o name \o <<">">>
SelfClosing(name) == <<"<">> \o name \o <<"/", ">">>

Foo == <<"F", "o", "o">>
Bar == <<"B", "a", "r">>
Header == <<"H", "e", "a", "d", "e", "r">>

Tags == {Open(AppName), Close(AppName), Open(Foo), Close(Foo), Close(Bar),
         SelfClosing(Header),
         SelfClosing(ConfigName), Open(ConfigName), Close(ConfigName)}
Separators == {<<>>, <<" ">>}

RECURSIVE Join(_, _)
Join(tags, sep) ==
    IF tags = <<>> THEN <<>>
    ELSE IF Len(tags) = 1 THEN tags[1]
    ELSE tags[1] \o sep \o Join(Tail(tags), sep)

Documents ==
    {Join(tags, sep) : tags \in UNION {[1..n -> Tags] : n \in 0..MaxTags},
                       sep \in Separators}

\* a new QuickReact (its tree is empty), and parseMarkup called on it with a
\* markup text or with something that is not a string
InitParse ==
    /\ value = <<>>
    /\ children = <<>>
    /\ root = Undefined
    /\ size = 0
    /\ modCount = 0
    /\ iter = NoIter
    /\ result = Ret("new", "true", Null)
    /\ gen = NoGen
    /\ \/ \E code \in Documents :
            parse = [NoParse EXCEPT !.phase = "called", !.code = code]
       \/ parse = [NoParse EXCEPT !.phase = "called", !.string = FALSE]

\* a part of parseMarkup: nothing is generated meanwhile
Parsing(Step) == Step /\ UNCHANGED gen

NextParse ==
    \/ Parsing(Lex)
    \/ Parsing(InstallConfig)
    \/ Parsing(InstallApp)
    \/ Parsing(ValidateClosers)
    \/ Parsing(Build)
    \/ Parsing(ParseReturns)

SpecParse == InitParse /\ [][NextParse]_vars

\* The well-nested texts: an App block that holds up to MaxNodes - 2
\* components (open and close tag, or self-closing), nested or side by side,
\* after a self-closing Config tag or none.
RECURSIVE Forest(_), Block(_)
\* the tag sequences of n components side by side or nested
Forest(n) ==
    IF n = 0 THEN {<<>>}
    ELSE UNION {{first \o others : first \in Block(k), others \in Forest(n - k)} :
                  k \in 1..n}
\* the tag sequences of one component that holds n - 1 others
Block(n) ==
    (IF n = 1 THEN {<<SelfClosing(Header)>>} ELSE {})
    \cup {<<Open(name)>> \o inside \o <<Close(name)>> :
            name \in {Foo, Bar}, inside \in Forest(n - 1)}

NestedDocuments ==
    {Join(config \o <<Open(AppName)>> \o body \o <<Close(AppName)>>, sep) :
        config \in {<<>>, <<SelfClosing(ConfigName)>>},
        body \in UNION {Forest(n) : n \in 0..(MaxNodes - 2)},
        sep \in Separators}

\* a new QuickReact, and parseMarkup called on it with a well-nested text
InitNested ==
    /\ value = <<>>
    /\ children = <<>>
    /\ root = Undefined
    /\ size = 0
    /\ modCount = 0
    /\ iter = NoIter
    /\ result = Ret("new", "true", Null)
    /\ gen = NoGen
    /\ \E code \in NestedDocuments :
          parse = [NoParse EXCEPT !.phase = "called", !.code = code]

SpecNested == InitNested /\ [][NextParse]_vars

\* The texts parsed one after the other on one QuickReact: an App block that
\* is empty or holds one component, after a self-closing Config tag or none.
EditedDocuments ==
    {Join(config \o <<Open(AppName)>> \o body \o <<Close(AppName)>>, <<" ">>) :
        config \in {<<>>, <<SelfClosing(ConfigName)>>},
        body \in Forest(0) \cup Forest(1)}

InitReparse ==
    /\ value = <<>>
    /\ children = <<>>
    /\ root = Undefined
    /\ size = 0
    /\ modCount = 0
    /\ iter = NoIter
    /\ result = Ret("new", "true", Null)
    /\ gen = NoGen
    /\ \E code \in EditedDocuments :
          parse = [NoParse EXCEPT !.phase = "called", !.code = code]

NextReparse ==
    \/ NextParse
    \/ \E code \in EditedDocuments : Parsing(ParseAgain(code))

SpecReparse == InitReparse /\ [][NextReparse]_vars

\* The texts with empty fragments: the tags of a valid text, and up to
\* MaxFragments times `<>` or `</>` put before, between or after them.
FragmentOpen == <<"<", ">">>
FragmentClose == <<"<", "/", ">">>
Fragments == {FragmentOpen, FragmentClose}

ValidTexts ==
    {<<Open(AppName), Close(AppName)>>,
     <<Open(AppName), SelfClosing(Header), Close(AppName)>>,
     <<SelfClosing(ConfigName), Open(AppName), Close(AppName)>>}

RECURSIVE WithFragments(_, _)
WithFragments(tags, n) ==
    IF n = 0 THEN {tags}
    ELSE {tags} \cup
         UNION {WithFragments(SpliceIn(tags, pos, f), n - 1) :
                  pos \in 0..Len(tags), f \in Fragments}

Spaces(n) == [k \in 1..n |-> " "]

\* the text of the tags: one space before a tag that is not the first,
\* `before` spaces before a fragment
RECURSIVE Spaced(_, _, _)
Spaced(tags, before, first) ==
    IF tags = <<>> THEN <<>>
    ELSE (IF Head(tags) \in Fragments THEN Spaces(before)
          ELSE IF first THEN <<>> ELSE <<" ">>)
         \o Head(tags) \o Spaced(Tail(tags), before, FALSE)

\* the spaces before a fragment: none, one or two
Gaps == 0..2

FragmentDocuments ==
    {Spaced(tags, before, TRUE) :
        tags \in UNION {WithFragments(valid, MaxFragments) : valid \in ValidTexts},
        before \in Gaps}

InitFragments ==
    /\ value = <<>>
    /\ children = <<>>
    /\ root = Undefined
    /\ size = 0
    /\ modCount = 0
    /\ iter = NoIter
    /\ result = Ret("new", "true", Null)
    /\ gen = NoGen
    /\ \E code \in FragmentDocuments :
          parse = [NoParse EXCEPT !.phase = "called", !.code = code]

SpecFragments == InitFragments /\ [][NextParse]_vars

\* The texts written character by character: up to MaxChars characters, each
\* a bracket, a slash, a letter or a space, alone or after a valid text.
Characters == {"<", ">", "/", "x", " "}
Strings == UNION {[1..n -> Characters] : n \in 0..MaxChars}
BracketDocuments ==
    {before \o string :
        before \in {<<>>, Spaced(<<Open(AppName), Close(AppName)>>, 0, TRUE) \o <<" ">>},
        string \in Strings}

InitBrackets ==
    /\ value = <<>>
    /\ children = <<>>
    /\ root = Undefined
    /\ size = 0
    /\ modCount = 0
    /\ iter = NoIter
    /\ result = Ret("new", "true", Null)
    /\ gen = NoGen
    /\ \E code \in BracketDocuments :
          parse = [NoParse EXCEPT !.phase = "called", !.code = code]

SpecBrackets == InitBrackets /\ [][NextParse]_vars

\* The texts with attributes: an App block whose open tag has up to
\* MaxTokens tokens after its name, each a list token, a flag or a word the
\* parser does not know.
AttributeTokens ==
    {<<"f", "o", "r", "m", "i", "n", "p", "u", "t", "=", "a">>,
     <<"f", "o", "r", "m", "i", "n", "p", "u", "t", "s", "=", "b", ",", "c">>,
     <<"h", "o", "o", "k", "s", "=", "u", "s", "e", "S", "t", "a", "t", "e">>,
     <<"u", "s", "e", "E", "f", "f", "e", "c", "t">>,
     <<"u", "s", "e", "S", "t", "a", "t", "e", "=", "t", "r", "u", "e">>,
     <<"u", "s", "e", "R", "e", "d", "u", "c", "e", "r", "*", "2">>,
     <<"f", "o", "r", "m">>,
     <<"z", "z", "z">>}
TokenLists == UNION {[1..n -> AttributeTokens] : n \in 0..MaxTokens}

\* <App token ... token> </App>
Tagged(tokens) ==
    Open(Join(<<AppName>> \o tokens, <<" ">>)) \o <<" ">> \o Close(AppName)

AttributeDocuments == {Tagged(tokens) : tokens \in TokenLists}

InitAttributes ==
    /\ value = <<>>
    /\ children = <<>>
    /\ root = Undefined
    /\ size = 0
    /\ modCount = 0
    /\ iter = NoIter
    /\ result = Ret("new", "true", Null)
    /\ gen = NoGen
    /\ \E code \in AttributeDocuments :
          parse = [NoParse EXCEPT !.phase = "called", !.code = code]

SpecAttributes == InitAttributes /\ [][NextParse]_vars

\* The elements whose hooks attribute asks for repeated instances: up to
\* MaxGroups groups, each a hook name alone, with a multiplier or with a list
\* of names.  A name is given with its two other spellings.
Login == [default |-> <<"L", "o", "g", "i", "n">>, lower |-> <<"l", "o", "g", "i", "n">>,
          mixed |-> <<"L", "o", "g", "i", "n">>]
LogOut == [default |-> <<"l", "o", "g", "O", "u", "t">>, lower |-> <<"l", "o", "g", "o", "u", "t">>,
           mixed |-> <<"L", "o", "g", "o", "u", "t">>]
Id == [default |-> <<"i", "d">>, lower |-> <<"i", "d">>, mixed |-> <<"I", "d">>]

UseState == <<"u", "s", "e", "S", "t", "a", "t", "e">>
UseEffect == <<"u", "s", "e", "E", "f", "f", "e", "c", "t">>
AppState == <<"a", "p", "p", "S", "t", "a", "t", "e">>

Bare(family) == [family |-> family, form |-> "bare", n |-> 1, entries |-> <<>>]
Times(family, n) == [family |-> family, form |-> "times", n |-> n, entries |-> <<>>]
Listed(family, entries) ==
    [family |-> family, form |-> "list", n |-> Len(entries), entries |-> entries]

Groups ==
    {Bare(UseState), Times(UseState, 2), Times(UseState, 12),
     Listed(UseState, <<Login, LogOut, Id>>), Listed(UseState, <<Id>>),
     Bare(UseEffect)}
GroupLists == UNION {[1..n -> Groups] : n \in 0..MaxGroups}

\* the text of a group, and of the groups after hooks=
GroupText(group) ==
    IF group.form = "bare" THEN group.family
    ELSE IF group.form = "times" THEN group.family \o <<"*">> \o toString(group.n)
    ELSE group.family \o <<"[">>
         \o Join([k \in 1..Len(group.entries) |-> group.entries[k].default], <<",">>)
         \o <<"]">>
Written(groups) == Join([k \in 1..Len(groups) |-> GroupText(groups[k])], <<",">>)

Form == <<"f", "o", "r", "m">>

\* the tokens of the tag after its name: the flag form or not, then hooks=
\* and the groups if there are any
GroupTokens(flag, groups) ==
    (IF flag THEN <<Form>> ELSE <<>>)
    \o (IF groups = <<>> THEN <<>> ELSE <<HooksEq \o Written(groups)>>)

\* a routine is about to write the instances of a hook of an element
InitMultiplier ==
    /\ value = <<>>
    /\ children = <<>>
    /\ root = Undefined
    /\ size = 0
    /\ modCount = 0
    /\ iter = NoIter
    /\ result = Ret("new", "true", Null)
    /\ parse = NoParse
    /\ \E flag \in BOOLEAN, groups \in GroupLists, family \in {UseState, UseEffect} :
          gen = [NoGen EXCEPT !.phase = "while",
                              !.attributes = Attributes(GroupTokens(flag, groups), <<>>),
                              !.searchAttribute = family,
                              !.defaultName = AppState]

NextMultiplier ==
    \/ WhileTest
    \/ ForTest

SpecMultiplier == InitMultiplier /\ [][NextMultiplier]_vars

\* The elements given to output_app and output_component: with or without
\* hooks, the hooks being groups of useContext and of useReducer, and with
\* some of the flags switch, route and link.
ProviderGroups ==
    {Bare(UseContext), Times(UseContext, 2), Listed(UseContext, <<Login, Id>>),
     Bare(UseReducer), Times(UseReducer, 2)}
ProviderLists == UNION {[1..n -> ProviderGroups] : n \in 0..MaxGroups}
RouterFlags ==
    {<<>>, <<<<"s", "w", "i", "t", "c", "h">>>>,
     <<<<"r", "o", "u", "t", "e">>, <<"l", "i", "n", "k", "=", "t", "r", "u", "e">>>>,
     <<<<"s", "w", "i", "t", "c", "h">>, <<"r", "o", "u", "t", "e">>, <<"l", "i", "n", "k">>>>}

\* a routine is called for an element
InitOutput ==
    /\ value = <<>>
    /\ children = <<>>
    /\ root = Undefined
    /\ size = 0
    /\ modCount = 0
    /\ iter = NoIter
    /\ result = Ret("new", "true", Null)
    /\ parse = NoParse
    /\ \E flags \in RouterFlags, groups \in ProviderLists :
          gen = [NoGen EXCEPT !.phase = "imports",
                              !.attributes =
                                  Attributes(flags \o GroupTokens(FALSE, groups), <<>>)]

NextOutput ==
    \/ OutputImports
    \/ LoopWhile
    \/ LoopUp
    \/ LoopDownFrom
    \/ LoopDown

SpecOutput == InitOutput /\ [][NextOutput]_vars

\* The texts whose trees are generated: the well-nested ones, and texts with
\* a second Config tag or a second component named App
GenerateDocuments ==
    NestedDocuments
    \cup {Join(<<SelfClosing(ConfigName), SelfClosing(ConfigName),
                 Open(AppName), SelfClosing(Header), Close(AppName)>>, <<" ">>),
          Join(<<Open(AppName), SelfClosing(AppName), SelfClosing(Header),
                 Close(AppName)>>, <<" ">>)}

\* what the folder of the document holds before the command: nothing, one
\* project file, or all that an earlier command made
Folders == {{}, {"index_qr.js"}, Directories \cup ProjectFiles \cup ComponentFiles}

\* the possible answers to the prompt; undefined when it is dismissed
Confirmations == {"Proceed", "Cancel", "Always Proceed", "undefined"}

\* a new QuickReact and parseMarkup called on it, with a text or with
\* something that is no string
InitGenerate ==
    /\ value = <<>>
    /\ children = <<>>
    /\ root = Undefined
    /\ size = 0
    /\ modCount = 0
    /\ iter = NoIter
    /\ result = Ret("new", "true", Null)
    /\ \E folder \in Folders, confirmOverwrite \in {"true", "false", "undefined"} :
          gen = [NoGen EXCEPT !.folder = folder, !.confirmOverwrite = confirmOverwrite]
    /\ \/ \E code \in GenerateDocuments :
            parse = [NoParse EXCEPT !.phase = "called", !.code = code]
       \/ parse = [NoParse EXCEPT !.phase = "called", !.string = FALSE]

\* the command of the extension: parseMarkup, then generateProjectFiles
NextGenerate ==
    \/ NextParse
    \/ GenerateProjectFiles
    \/ \E confirmation \in Confirmations : Confirm(confirmation)
    \/ Updated
    \/ GenerateNode

SpecGenerate == InitGenerate /\ [][NextGenerate]_vars

\* ================================================================ claims
\* the nodes some chain of child lists reaches from the nodes of S; unlike a
\* walk, this is defined whatever the child lists hold
RECURSIVE Closure(_)
Closure(S) ==
    LET T == S \cup UNION {Range(children[m]) : m \in S}
    IN  IF T = S THEN S ELSE Closure(T)

Reachable == IF Absent(root) THEN {} ELSE Closure({root})

\* the places (parent, index) of the tree's child lists that hold node n
Places(n) ==
    {pi \in Reachable \X (1..Len(children)) :
        pi[2] <= Len(children[pi[1]]) /\ children[pi[1]][pi[2]] = n}

\* the parent of a node of the tree other than the root
ParentOf(n) == CHOOSE p \in Reachable : n \in Range(children[p])

\* a node was taken out of the tree: some node constructed is not in it
SomeRemoved == Nodes \ Reachable # {}

Inserts == {"add", "addAsFirstChild", "addAsLastChild", "addAtPosition"}
Removals == {"remove", "removeNode", "removeSubtree", "removeNodeSubtree"}
Queries == {"contains", "get", "getNode", "size", "height",
            "levelOrderIterator", "preOrderIterator", "levelNext", "preNext"}
Errors == {"TypeError", "ReferenceError", "RangeError"}

\* the objects held by the nodes a walk from node reaches
ValuesUnder(node) == {value[n] : n \in Range(LevelOrder(node, children))}

\* the traversal the caller holds has yielded a node and has not ended, and
\* the tree's version is no longer the one it started at
Stale == iter.status = "running" /\ modCount # iter.startMod

\* a step that is a call of remove() or removeNode() without a target
NoTargetRemoval == (\E p \in NodeArgs : Remove(Null, p)) \/ RemoveNode(Null)

\* what removing node t of the tree (not the root) from under its parent
\* leaves: size one less, the parent's list without t and then `moved`, the
\* root and every other node's child list as they were
TakenOut(t, moved) ==
    LET parent == ParentOf(t)
    IN  /\ size' = size - 1
        /\ root' = root
        /\ children'[parent] = SelectSeq(children[parent], LAMBDA c : c # t) \o moved
        /\ \A m \in Nodes \ {parent} : children'[m] = children[m]

\* a step that is a call of removeNode or of remove by value which settles
\* on node t
RemovalOf(t) ==
    \/ RemoveNode(t)
    \/ \E v \in Values, p \in NodeArgs : removeTarget(v, p) = t /\ Remove(v, p)

\* a step that is a call of removeSubtree or removeNodeSubtree which settles
\* on node t
PruningOf(t) ==
    \/ RemoveNodeSubtree(t)
    \/ \E v \in Values, p \in NodeArgs : subtreeTarget(v, p) = t /\ RemoveSubtree(v, p)

\* C1: after every sequence of add, addAsFirstChild, addAsLastChild,
\* addAtPosition, remove and removeNode calls whose parents are nodes of the
\* tree, size() is the number of nodes reachable from the root.
C1_SizeIsNodeCount == size = Cardinality(Reachable)

\* C1's case: a removal succeeded after inserts, and nodes are left
C1_Witness ==
    /\ result.op \in {"remove", "removeNode"}
    /\ result.out = "true"
    /\ SomeRemoved
    /\ Cardinality(Reachable) >= 2

\* C2: once a level-order traversal has started and the tree was mutated
\* before its end, the next pull raises a ReferenceError.
C2_LevelOrderFailsFast ==
    [][(LevelNext /\ Stale) => result'.out = "ReferenceError"]_vars

\* C3: a pull of a pre-order traversal raises a ReferenceError exactly when
\* the tree's version changed since the traversal started.
C3_PreOrderFailsFast ==
    [][(PreNext /\ iter.status = "running") =>
          (result'.out = "ReferenceError" <=> modCount # iter.startMod)]_vars

\* C4: removeSubtree / removeNodeSubtree on a node of the tree that is not
\* the root and whose subtree has k nodes makes size exactly k less.
C4_SubtreeSize ==
    [][result'.op \in {"removeSubtree", "removeNodeSubtree"} =>
          \A t \in Reachable \ {root} :
              PruningOf(t) => size' = size - Cardinality(Closure({t}))]_vars

\* C5: _modCount grows on every insert, remove, removeSubtree and clear
\* that succeeds, and stays as it is on a query, a traversal, and a call
\* that fails with an error.
C5_ModCount ==
    [][/\ (result'.op \in Inserts \cup Removals \cup {"clear"} /\ result'.out = "true")
            => modCount' > modCount
       /\ (result'.op \in Queries \/ result'.out \in Errors)
            => modCount' = modCount]_vars

\* C6: remove(value), remove(value, parent), removeNode(node) and
\* removeSubtree(value, parent?) fail with a ReferenceError when the target
\* is not in the tree or subtree searched, and leave the tree as it was.
C6_NotFound ==
    [][/\ \A v \in Values, p \in NodeArgs :
            (Remove(v, p) /\ v \notin ValuesUnder(IF Absent(p) THEN root ELSE p))
                => result'.out = "ReferenceError" /\ UNCHANGED treeVars
       /\ \A n \in Nodes \ Reachable :
            RemoveNode(n) => result'.out = "ReferenceError" /\ UNCHANGED treeVars
       /\ \A v \in Values, p \in NodeArgs :
            (RemoveSubtree(v, p) /\ v \notin ValuesUnder(IF Absent(p) THEN root ELSE p))
                => result'.out = "ReferenceError" /\ UNCHANGED treeVars]_vars

\* C7: remove()/removeNode() without a target, the root having a child,
\* makes the root's first child the root, its child list its own former
\* children followed by the old root's remaining children in their order,
\* and size one less; the root being childless, the tree becomes empty.
C7_RootRemoval ==
    [][(result'.op \in {"remove", "removeNode"} /\ ~Absent(root) /\ NoTargetRemoval) =>
          IF Len(children[root]) >= 1
          THEN LET first == Head(children[root])
               IN  /\ root' = first
                   /\ children'[first] = children[first] \o Tail(children[root])
                   /\ size' = size - 1
          ELSE /\ size' = 0
               /\ Absent(root')]_vars

\* C7's case: the root was removed, and the promoted node's list is its own
\* children followed by the old root's (whose array keeps the remaining ones)
C7_Witness ==
    /\ result.op \in {"remove", "removeNode"}
    /\ result.out = "true"
    /\ ~Absent(root)
    /\ \E old \in Nodes \ Reachable :
          LET mine == Len(children[root]) - Len(children[old])
          IN  /\ children[old] # <<>>
              /\ mine >= 1
              /\ SubSeq(children[root], mine + 1, Len(children[root])) = children[old]
              /\ \A i \in 1..mine : children[root][i] \notin Range(children[old])

\* C8: removeNode (or remove by value) on a node of the tree that is not the
\* root and has children makes size one less, takes the node out of its
\* parent's child list and appends its children to that list in their order;
\* every other node keeps its child list.
C8_ChildrenMoveUp ==
    [][result'.op \in {"remove", "removeNode"} =>
          \A t \in Reachable \ {root} :
              (Len(children[t]) >= 1 /\ RemovalOf(t)) => TakenOut(t, children[t])]_vars

\* C8's case: under a parent that keeps another child, a node with children
\* was removed and its children stand after that child
C8_Witness ==
    /\ result.op \in {"remove", "removeNode"}
    /\ result.out = "true"
    /\ \E n \in Nodes \ Reachable, p \in Reachable :
          LET kept == Len(children[p]) - Len(children[n])
          IN  /\ children[n] # <<>>
              /\ kept >= 1
              /\ SubSeq(children[p], kept + 1, Len(children[p])) = children[n]
              /\ n > p

\* C9: removeNode (or remove by value) on a childless node of the tree that
\* is not the root makes size one less and takes exactly that node out of
\* its parent's child list: the other siblings keep their order and every
\* other child list is as it was.
C9_LeafRemoval ==
    [][result'.op \in {"remove", "removeNode"} =>
          \A t \in Reachable \ {root} :
              (Len(children[t]) = 0 /\ RemovalOf(t)) => TakenOut(t, <<>>)]_vars

\* C9's case: a childless node was removed from between two siblings
C9_Witness ==
    /\ result.op \in {"remove", "removeNode"}
    /\ result.out = "true"
    /\ ~Absent(root)
    /\ \E n \in Nodes \ Reachable :
          /\ children[n] = <<>>
          /\ \E i \in 1..Len(children[root]) - 1 :
                children[root][i] < n /\ n < children[root][i + 1]

\* C10: every node of the tree other than the root is reached from the root
\* by exactly one path: it is in exactly one place of the tree's child lists
\* (not in two lists, not twice in one), and the root is in none (so no node
\* is its own ancestor).
C10_OnePath ==
    /\ \A n \in Reachable \ {root} : Cardinality(Places(n)) = 1
    /\ ~Absent(root) => Places(root) = {}

\* C10's case: a node with children was removed from under a parent that
\* is not the root, and its children moved up into that parent's list
C10_Witness ==
    /\ result.op \in {"remove", "removeNode"}
    /\ result.out = "true"
    /\ \E n \in Nodes \ Reachable, p \in Reachable \ {root} :
          /\ children[n] # <<>>
          /\ Range(children[n]) \subseteq Range(children[p])

\* C11: addAtPosition(value, parent, position) with position outside
\* 0..(number of parent's children) fails with a RangeError and leaves the
\* tree as it was; inside that range the new node is at index position of
\* parent's list (position + 1 here) and the list without it is the old one.
C11_Position ==
    [][result'.op = "addAtPosition" =>
          \A v \in Values, p \in Nodes : \A pos \in Positions(p) :
              AddAtPosition(v, p, pos) =>
                  IF pos < 0 \/ pos > Len(children[p])
                  THEN result'.out = "RangeError" /\ UNCHANGED treeVars
                  ELSE /\ result'.out = "true"
                       /\ children'[p][pos + 1] = NewNode
                       /\ SpliceOut(children'[p], pos + 1) = children[p]]_vars

\* C11's case: the node constructed last was put between two children
C11_Witness ==
    /\ result.op = "addAtPosition"
    /\ result.out = "true"
    /\ \E p \in Nodes : \E i \in 2..(Len(children[p]) - 1) :
          children[p][i] = Len(children)

Matches(obj, from) ==
    LET walk == LevelOrder(from, children)
    IN  {i \in 1..Len(walk) : walk[i] = obj \/ value[walk[i]] = obj}

\* C13: contains, get and getNode search in level order and return the
\* first match (true / the value / the node); they return false or null,
\* without an error, when nothing matches (the empty tree included); and
\* they fail with a TypeError when the search value is null or undefined.
C13_Search ==
    [][result'.op \in {"contains", "get", "getNode"} =>
          /\ \A v \in Values \cup Nodes, p \in NodeArgs :
                Contains(v, p) =>
                    result'.out = IF Matches(v, IF Absent(p) THEN root ELSE p) # {}
                                  THEN "true" ELSE "false"
          /\ \A v \in Values :
                LET walk == LevelOrder(root, children)
                    hits == Matches(v, root)
                    first == CHOOSE i \in hits : \A j \in hits : i <= j
                IN  /\ Get(v) =>
                          IF hits = {} THEN result'.out = "null"
                          ELSE result'.out = "value" /\ result'.val = v
                    /\ GetNode(v) =>
                          IF hits = {} THEN result'.out = "null"
                          ELSE result'.out = "node" /\ result'.val = walk[first]
          /\ \A p \in NodeArgs : Contains(Null, p) => result'.out = "TypeError"
          /\ Get(Null) => result'.out = "TypeError"
          /\ GetNode(Null) => result'.out = "TypeError"]_vars

\* the number of edges from the root to node n of the tree
RECURSIVE Depth(_)
Depth(n) == IF n = root THEN 0 ELSE 1 + Depth(ParentOf(n))

\* the child indices along the way from the root to node n of the tree
RECURSIVE Path(_)
Path(n) ==
    IF n = root THEN <<>>
    ELSE Append(Path(ParentOf(n)), IndexOf(children[ParentOf(n)], n))

\* breadth-first order: a smaller depth first; at one depth, the children of
\* one node in the order of its list, and the children of the node that comes
\* first before those of the node that comes later (the order of the paths)
Before(a, b) ==
    \/ Depth(a) < Depth(b)
    \/ /\ Depth(a) = Depth(b)
       /\ \E i \in 1..Depth(a) :
             /\ Path(a)[i] < Path(b)[i]
             /\ \A j \in 1..(i - 1) : Path(a)[j] = Path(b)[j]

\* the place of node n of the tree in breadth-first order
Rank(n) == Cardinality({m \in Reachable : Before(m, n)}) + 1

Ended == parse.phase \in {"returned", "thrown"}

\* the tree of a QuickReact on which nothing was done
Untouched == Absent(root) /\ size = 0 /\ modCount = 0 /\ children = <<>>

\* C15: parsing `<App><Header/></App>`, nothing being between the tags,
\* succeeds with a tree of size 3: the Config element made by the parser at
\* the root, App its only child, Header the only child of App.
C15_AdjacentTags ==
    (/\ Ended
     /\ parse.code = Join(<<Open(AppName), SelfClosing(Header), Close(AppName)>>, <<>>)) =>
        /\ parse.phase = "returned"
        /\ size = 3
        /\ ~Absent(root)
        /\ value[root] = SynthConfig
        /\ Len(children[root]) = 1
        /\ value[children[root][1]] = ElemId(1)
        /\ Len(children[children[root][1]]) = 1
        /\ value[children[children[root][1]][1]] = ElemId(2)

\* C16: when parseMarkup fails with a SyntaxError for a missing App, a
\* missing closing tag or a close tag that does not match, the tree is as it
\* was before the call: empty, for a new QuickReact.
C16_NoPartialTree ==
    (/\ parse.phase = "thrown"
     /\ result.out = "SyntaxError"
     /\ parse.error \in {"missing App", "missing closing tag", "overlap"}) =>
        Untouched

\* some close tag of the elements is not the close tag of the component
\* opened last and not closed yet (`open`: the names of those opened)
RECURSIVE Mismatched(_, _)
Mismatched(elems, open) ==
    IF elems = <<>> THEN FALSE
    ELSE LET e == Head(elems)
         IN  IF e.type = "component" /\ e.subtype = "opentag"
             THEN Mismatched(Tail(elems), Append(open, e.name))
             ELSE IF e.type = "component" /\ e.subtype = "closetag"
             THEN \/ open = <<>>
                  \/ e.name # <<"/">> \o open[Len(open)]
                  \/ Mismatched(Tail(elems), SubSeq(open, 1, Len(open) - 1))
             ELSE Mismatched(Tail(elems), open)

\* C17: parsing a text in which some close tag does not match the component
\* opened last and still open raises a SyntaxError whose message names the
\* open tag and the close tag.
C17_MismatchNamed ==
    (Ended /\ Mismatched(parse.elements, <<>>)) =>
        /\ parse.phase = "thrown"
        /\ result.out = "SyntaxError"
        /\ parse.error = "overlap"
        /\ Len(parse.names) = 2

\* what C18 says of a step of parseMarkup: no addAsLastChild while an open
\* tag lacks its close tag, and the call ends with the SyntaxError that
\* names the first such tag
ClosersFirst ==
    /\ result'.op = "addAsLastChild" => Unclosed = {}
    /\ (Unclosed # {} /\ parse'.phase \in {"returned", "thrown"}) =>
          /\ parse'.phase = "thrown"
          /\ result'.out = "SyntaxError"
          /\ parse'.error = "missing closing tag"
          /\ parse'.names = <<parse.elements[FirstAfter(0, Unclosed)].name>>

\* C18, as amended: if the elements have an App open tag and some open-tag
\* component has no close-tag element of its name, parseMarkup raises the
\* SyntaxError that names the missing closing tag, and no addAsLastChild
\* call comes before it.
C18_ClosersFirst == [][AppElements # {} => ClosersFirst]_vars

\* C18 as stated: the same of every text, with an App open tag or without
C18_AsStated == [][ClosersFirst]_vars

\* C18's case: parseMarkup threw for the missing closing tag of Foo, the
\* elements holding an App open tag and a tag that would have been wired
C18_Witness ==
    /\ parse.phase = "thrown"
    /\ parse.error = "missing closing tag"
    /\ parse.names = <<Foo>>
    /\ AppElements # {}
    /\ \E k \in 1..Len(parse.elements) : parse.elements[k].subtype = "selfclosingtag"
    /\ Len(children) = 2

\* the text has the tag <App>
HasOpenApp(code) ==
    \E k \in 1..Len(code) :
        k + 4 <= Len(code) /\ SubSeq(code, k, k + 4) = Open(AppName)

\* C19: parsing a text without an open tag named App raises the SyntaxError
\* for the missing App, whatever else the text holds.
C19_MissingApp ==
    (Ended /\ parse.string /\ ~HasOpenApp(parse.code)) =>
        /\ parse.phase = "thrown"
        /\ result.out = "SyntaxError"
        /\ parse.error = "missing App"

\* texts with a Config tag, or none, before a well-nested App block
ConfigParts == {<<>>, <<SelfClosing(ConfigName)>>, <<Open(ConfigName), Close(ConfigName)>>}
AppBlocks ==
    {<<Open(AppName), Close(AppName)>>,
     <<Open(AppName), SelfClosing(Header), Close(AppName)>>,
     <<Open(AppName), Open(Foo), Close(Foo), Close(AppName)>>}

\* C20: a text with a Config tag (self-closing, or an open and a close tag)
\* and a well-nested App block parses, the Config element at the root and
\* App the root's first child; without a Config tag the root holds the
\* Config element the parser makes, App its first child.
C20_ConfigRoot ==
    \A config \in ConfigParts, app \in AppBlocks :
        (Ended /\ parse.code = Join(config \o app, <<" ">>)) =>
            /\ parse.phase = "returned"
            /\ ~Absent(root)
            /\ value[root] = IF config = <<>> THEN SynthConfig ELSE ElemId(1)
            /\ children[root] # <<>>
            /\ value[children[root][1]] = ElemId(Len(config) + 1)

\* the open-tag components among the first k - 1 elements that are still
\* open at the k-th, the one opened last at the end
RECURSIVE OpenBefore(_, _)
OpenBefore(elems, k) ==
    IF k = 1 THEN <<>>
    ELSE LET open == OpenBefore(elems, k - 1)
             e == elems[k - 1]
         IN  IF e.type = "component" /\ e.subtype = "opentag"
             THEN Append(open, k - 1)
             ELSE IF e.type = "component" /\ e.subtype = "closetag" /\ open # <<>>
             THEN SubSeq(open, 1, Len(open) - 1)
             ELSE open

\* the elements that get a node: the open-tag and self-closing components
Wired(elems) ==
    {k \in 1..Len(elems) :
        elems[k].type = "component" /\ elems[k].subtype \in {"opentag", "selfclosingtag"}}

\* the component that encloses the k-th element; 0 if none does
Enclosing(elems, k) ==
    LET open == OpenBefore(elems, k)
    IN  IF open = <<>> THEN 0 ELSE open[Len(open)]

\* The elements are those of a well-nested document: every close tag closes
\* the component opened last, none stays open, there is one App open tag
\* and it encloses every other component; at most one tag is a Config tag.
WellNested(elems) ==
    /\ Cardinality({k \in 1..Len(elems) : elems[k].type = "config"}) <= 1
    /\ \A k \in 1..Len(elems) :
          (elems[k].type = "component" /\ elems[k].subtype = "closetag") =>
              /\ Enclosing(elems, k) # 0
              /\ elems[k].name = <<"/">> \o elems[Enclosing(elems, k)].name
    /\ OpenBefore(elems, Len(elems) + 1) = <<>>
    /\ \E a \in Wired(elems) :
          /\ elems[a].name = AppName /\ elems[a].subtype = "opentag"
          /\ \A k \in Wired(elems) :
                IF k = a THEN Enclosing(elems, k) = 0
                ELSE elems[k].name # AppName /\ Enclosing(elems, k) # 0

\* the nodes of the tree that hold the k-th element
Holding(k) == {n \in Reachable : value[n] = ElemId(k)}

\* the elements enclosed directly by the k-th, in the order of their tags
RECURSIVE Inside(_, _, _)
Inside(elems, k, from) ==
    IF from > Len(elems) THEN <<>>
    ELSE (IF from \in Wired(elems) /\ Enclosing(elems, from) = k
          THEN <<ElemId(from)>> ELSE <<>>) \o Inside(elems, k, from + 1)

\* the tree is the nesting of the elements: the root and a node for every
\* open-tag or self-closing component, whose children are the components
\* its tags enclose directly, in the order of their tags
NestingTree ==
    /\ size = Cardinality(Wired(parse.elements)) + 1
    /\ \A k \in Wired(parse.elements) :
          /\ Cardinality(Holding(k)) = 1
          /\ \A n \in Holding(k) :
                [j \in 1..Len(children[n]) |-> value[children[n][j]]]
                    = Inside(parse.elements, k, 1)

C22_FreshTree ==
    (parse.call >= 1 /\ parse.phase = "returned") =>
        \A n \in Reachable : value[n] \in SynthConfig..(SynthConfig + Len(parse.elements))

\* C23: a text that differs from a valid one only by empty fragments,
\* whatever the number of characters between a fragment and the tag before
\* it, parses like the valid text: the lexer emits the same elements and
\* parseMarkup returns the same tree.
C23_FragmentsSkipped ==
    \A valid \in ValidTexts :
        \A tags \in WithFragments(valid, MaxFragments), before \in Gaps :
            (Ended /\ parse.code = Spaced(tags, before, TRUE)) =>
                /\ parse.phase = "returned"
                /\ parse.elements = Scan(Spaced(valid, 0, TRUE), 0, <<>>).elements
                /\ WellNested(parse.elements)
                /\ NestingTree

\* the lexer loop is over / it threw
Lexed == parse.phase \notin {"idle", "called"} /\ parse.string
LexerFailed ==
    /\ parse.phase = "thrown"
    /\ result.out = "SyntaxError"
    /\ parse.error \in {"missing <", "missing >"}

\* from index p on, the text has a '<' that no '>' follows
OpenUnmatched(code, p) ==
    \E s \in p..(Len(code) - 1) :
        charAt(code, s) = "<" /\ strIndexOf(code, ">", s) = -1
\* from index p on, the text has a '>' and no '<'
CloseUnmatched(code, p) ==
    strIndexOf(code, ">", p) # -1 /\ strIndexOf(code, "<", p) = -1
\* from index p on, the text has no bracket
NoBracket(code, p) ==
    strIndexOf(code, ">", p) = -1 /\ strIndexOf(code, "<", p) = -1

\* C24: whenever, at a position where the lexer's scan stands, the rest of
\* the text has a '<' with no '>' after it or a '>' and no '<', the lexer
\* fails with a SyntaxError; when the rest has no bracket the scan ends
\* without one.
C24_UnmatchedBracket ==
    Lexed =>
        LET at == Scan(parse.code, 0, <<>>).at
        IN  \A k \in 1..Len(at) :
                /\ (OpenUnmatched(parse.code, at[k]) \/ CloseUnmatched(parse.code, at[k]))
                       => LexerFailed
                /\ NoBracket(parse.code, at[k]) => ~LexerFailed

\* the text of s after its first n characters
After(s, n) == SubSeq(s, n + 1, Len(s))

\* what a token gives to the list of forminputs / of hooks: a sequence of
\* one value, or none if it is no list token of that key
FormInputOf(token) ==
    IF startsWith(token, ForminputsEq) THEN <<After(token, Len(ForminputsEq))>>
    ELSE IF startsWith(token, ForminputEq) THEN <<After(token, Len(ForminputEq))>>
    ELSE <<>>
HookOf(token) ==
    IF startsWith(token, HooksEq) THEN <<After(token, Len(HooksEq))>>
    ELSE IF \E h \in HookNames : token = h \/ token = h \o EqTrue
    THEN <<CHOOSE h \in HookNames : token = h \/ token = h \o EqTrue>>
    ELSE IF \E h \in MultipliedHooks : startsWith(token, h) THEN <<token>>
    ELSE <<>>

\* the values that the tokens give, in the order of the tokens
RECURSIVE FormInputs(_)
FormInputs(tokens) ==
    IF tokens = <<>> THEN <<>> ELSE FormInputOf(Head(tokens)) \o FormInputs(Tail(tokens))
RECURSIVE Hooks(_)
Hooks(tokens) ==
    IF tokens = <<>> THEN <<>> ELSE HookOf(Head(tokens)) \o Hooks(Tail(tokens))

\* the attribute is the list of the values joined by commas; there is none
\* if there is no value
IsList(attributes, key, values) ==
    IF values = <<>> THEN ~hasAttribute(attributes, key)
    ELSE /\ hasAttribute(attributes, key)
         /\ getAttribute(attributes, key) = Join(values, <<",">>)

\* C25: after the lexer has resolved a tag, its forminputs attribute is the
\* values of its forminput= and forminputs= tokens, and its hooks attribute
\* the values of its hooks= tokens and hook names, each once, in the order
\* of the tokens, joined by commas.
C25_ListAttributes ==
    \A tokens \in TokenLists :
        (Lexed /\ parse.code = Tagged(tokens)) =>
            /\ parse.elements # <<>>
            /\ IsList(parse.elements[1].attributes, "forminputs", FormInputs(tokens))
            /\ IsList(parse.elements[1].attributes, "hooks", Hooks(tokens))


\* the value of the hooks attribute of the element the routine writes
HooksValue ==
    IF hasAttribute(gen.attributes, "hooks")
    THEN getAttribute(gen.attributes, "hooks")
    ELSE <<>>

\* the groups of a family among the groups written
OfFamily(groups, family) ==
    LET Chosen(group) == group.family = family
    IN  SelectSeq(groups, Chosen)

\* a call of _findMultiplier found the entries of a list: their number is
\* returned and the first names are the entries
ListFound(entries) ==
    /\ gen'.out = "number"
    /\ gen'.returned = Len(entries)
    /\ Len(gen'.specifiedNameArray) >= Len(entries)
    /\ \A j \in 1..Len(entries) : gen'.specifiedNameArray[j] = entries[j]

\* C26: when the group of the family at matchIndex is a bracketed list,
\* _findMultiplier returns the number of entries of that list and fills one
\* name per entry (as given, lowercased, capitalized), whatever the names
\* array held before the call.
C26_BracketList ==
    [][\A groups \in GroupLists :
          LET family == OfFamily(groups, gen.searchAttribute)
          IN  /\ HooksValue = Written(groups)
              /\ gen.matchIndex < Len(family)
              /\ family[gen.matchIndex + 1].form = "list"
              => ListFound(family[gen.matchIndex + 1].entries)]_vars

\* the decimal digits of a number below 100
Decimal(n) ==
    IF n < 10 THEN <<Digits[n + 1]>>
    ELSE <<Digits[(n \div 10) + 1], Digits[(n % 10) + 1]>>

\* the j-th name after the base appState
Numbered(j) ==
    [default |-> <<"a", "p", "p", "S", "t", "a", "t", "e">> \o Decimal(j),
     lower |-> <<"a", "p", "p", "s", "t", "a", "t", "e">> \o Decimal(j),
     mixed |-> <<"A", "p", "p", "s", "t", "a", "t", "e">> \o Decimal(j)]

\* a call of _findMultiplier returned n and named n instances after the base
NumberedFound(n) ==
    /\ gen'.out = "number"
    /\ gen'.returned = n
    /\ Len(gen'.specifiedNameArray) >= n
    /\ \A j \in 1..n : gen'.specifiedNameArray[j] = Numbered(j)

\* C27: when the group of the family at matchIndex is family*N or family*NN,
\* _findMultiplier returns N and the first N names are base1 .. baseN, each
\* with its lowercased and capitalized spelling.
C27_Multiplier ==
    [][\A groups \in GroupLists :
          LET family == OfFamily(groups, gen.searchAttribute)
          IN  /\ HooksValue = Written(groups)
              /\ gen.matchIndex < Len(family)
              /\ family[gen.matchIndex + 1].form = "times"
              => NumberedFound(family[gen.matchIndex + 1].n)]_vars

\* the call for useState*12 after a list of three names has returned
C27_Witness ==
    /\ HooksValue = Written(<<Listed(UseState, <<Login, LogOut, Id>>), Times(UseState, 12)>>)
    /\ gen.searchAttribute = UseState
    /\ gen.matchIndex = 1
    /\ gen.phase = "for"
    /\ gen.returned = 12
    /\ Len(gen.specifiedNameArray) = 12

\* every group of the sequence is the hook name alone
AllBare(family) == \A k \in 1..Len(family) : family[k].form = "bare"

\* C28: on the first call (matchIndex 0), _findMultiplier returns 1 and names
\* base1 when the family is written only as a bare token, and returns 0,
\* leaving the names array alone, when the family is in no attribute value of
\* the element.
C28_BareOrAbsent ==
    [][\A groups \in GroupLists :
          LET family == OfFamily(groups, gen.searchAttribute)
          IN  HooksValue = Written(groups) /\ gen.matchIndex = 0
              => /\ family # <<>> /\ AllBare(family) => NumberedFound(1)
                 /\ family = <<>>
                    => /\ gen'.out = "number"
                       /\ gen'.returned = 0
                       /\ gen'.specifiedNameArray = gen.specifiedNameArray]_vars

\* the first call for useState has returned 1 for useEffect,useState
C28_Witness ==
    /\ HooksValue = Written(<<Bare(UseEffect), Bare(UseState)>>)
    /\ gen.searchAttribute = UseState
    /\ gen.matchIndex = 0
    /\ gen.phase = "for"
    /\ gen.returned = 1
    /\ gen.specifiedNameArray = <<Numbered(1)>>

\* C29: on an element whose hooks attribute holds g groups of the family, the
\* call with matchIndex i returns the count of group i for i < g and 0 for
\* i = g, so that the loop ends when matchIndex is g.
C29_Groups ==
    [][\A groups \in GroupLists :
          LET family == OfFamily(groups, gen.searchAttribute)
          IN  HooksValue = Written(groups)
              => /\ gen'.out = "number"
                 /\ gen.matchIndex < Len(family)
                    => gen'.returned = family[gen.matchIndex + 1].n
                 /\ gen.matchIndex = Len(family) => gen'.returned = 0
                 /\ gen'.phase = "done" => gen.matchIndex = Len(family)]_vars

\* the walk applied a routine to every node of the tree, one after the other
\* in breadth-first order, the routine that the element's name and type ask
\* for
Generated ==
    /\ Len(gen.routines) = Cardinality(Reachable)
    /\ \A k \in 1..Len(gen.routines) :
          LET node == gen.routines[k].node
              elem == value[node]
          IN  /\ node \in Reachable
              /\ Rank(node) = k
              /\ gen.routines[k].routine =
                    IF TypeOf(elem) = "config" THEN "output_index"
                    ELSE IF NameOf(elem) = AppName THEN "output_app"
                    ELSE "output_component"

TargetsExist == gen.folder \cap (Directories \cup ProjectFiles) # {}

\* generateProjectFiles runs from its call to its return or to the prompt
Called == gen.phase = "idle" /\ gen'.phase \notin {"idle", "thrown"}

\* C31: with targets in the folder and the setting confirmOverwrite true,
\* generateProjectFiles prompts and nothing is made in the folder before the
\* answer; Cancel and a dismissal leave the folder as it was before the
\* command, Proceed generates the files once, Always Proceed sets the setting
\* to false and then generates the files once; with the setting false or
\* unset the files are generated without a prompt.
C31_ConfirmOverwrite ==
    [][/\ gen.walks <= 1 /\ gen'.walks <= 1
       /\ (Called /\ TargetsExist /\ gen.confirmOverwrite = "true")
          => /\ gen'.phase = "prompt"
             /\ gen'.walks = 0
             /\ gen'.folder = gen.folder
       /\ (Called /\ TargetsExist /\ gen.confirmOverwrite # "true")
          => gen'.phase = "walk" /\ gen'.walks = 1
       /\ (gen.phase = "prompt" /\ gen'.confirmation \in {"Cancel", "undefined"})
          => /\ gen'.phase = "returned"
             /\ gen'.walks = 0
             /\ gen'.folder = gen.folder
       /\ (gen.phase = "prompt" /\ gen'.confirmation = "Proceed")
          => gen'.phase = "walk" /\ gen'.walks = 1
       /\ (gen.phase = "prompt" /\ gen'.confirmation = "Always Proceed")
          => /\ gen'.phase = "update"
             /\ gen'.walks = 0
             /\ gen'.folder = gen.folder
             /\ gen'.confirmOverwrite = "true"
       /\ gen.phase = "update"
          => /\ gen'.phase = "walk"
             /\ gen'.walks = 1
             /\ gen'.confirmOverwrite = "false"]_vars

\* C32: generateProjectFiles called with a valid tree, no directory and no
\* file of the project being in the folder, generates the files once.
C32_NothingToOverwrite ==
    [][(Called /\ gen.folder = {}) => gen'.phase = "walk" /\ gen'.walks = 1]_vars

\* the nodes of the subtree of node p of the tree that hold the object v
HoldingUnder(v, p) == {n \in Closure({p}) : value[n] = v}

\* C33: remove(value, parent), parent a node of the tree whose subtree holds
\* value, takes out of the tree the first node in level order of that subtree
\* that holds value, and no other node.
C33_RemoveFirstUnder ==
    [][\A v \in Values, p \in Reachable :
          (Remove(v, p) /\ HoldingUnder(v, p) # {})
          => LET first == CHOOSE n \in HoldingUnder(v, p) :
                             \A m \in HoldingUnder(v, p) \ {n} : Before(n, m)
             IN  /\ result'.out = "true"
                 /\ Reachable' = Reachable \ {first}]_vars

\* the nodes of the tree that hold the k-th lexed element
NodesOf(k) == {n \in Reachable : value[n] = ElemId(k)}

\* the nodes of the tree whose element is named App
AppNodes == {n \in Reachable : NameOf(value[n]) = AppName}

\* C34: after parseMarkup has returned the tree of a text, on a QuickReact
\* that parsed nothing before, no lexed element is the value of two nodes and
\* one node is named App, the first child of the root.
C34_OneApp ==
    (parse.phase = "returned" /\ parse.string /\ parse.call = 0)
    => /\ \A k \in 1..Len(parse.elements) : Cardinality(NodesOf(k)) <= 1
       /\ Cardinality(AppNodes) = 1
       /\ children[root] # <<>>
       /\ Head(children[root]) \in AppNodes

\* the open tags and the close tags of the component `name` among the
\* elements of the parsed text
OpenTags(name) ==
    {k \in 1..Len(parse.elements) :
        /\ parse.elements[k].type = "component"
        /\ parse.elements[k].subtype = "opentag"
        /\ parse.elements[k].name = name}

CloseTags(name) ==
    {k \in 1..Len(parse.elements) :
        /\ parse.elements[k].type = "component"
        /\ parse.elements[k].subtype = "closetag"
        /\ parse.elements[k].name = <<"/">> \o name}

\* C35: parseMarkup returns a tree only for a text whose close tags balance
\* its open tags, name by name; a text with a close tag in surplus, a second
\* `</App>` say, ends in a SyntaxError.
C35_Balanced ==
    \A k \in 1..Len(parse.elements) :
        LET e == parse.elements[k]
            name == IF e.subtype = "closetag" THEN Tail(e.name) ELSE e.name
        IN  (/\ Ended
             /\ parse.string
             /\ e.type = "component"
             /\ Cardinality(CloseTags(name)) > Cardinality(OpenTags(name))) =>
                /\ parse.phase = "thrown"
                /\ result.out = "SyntaxError"

\* the values codeIndex takes, one for every turn of the lexer loop over the
\* text given to parseMarkup
Cursor == Scan(parse.code, 0, <<>>).at

\* the k-th turn of the loop skips a fragment `<>` or `</>` / takes a tag
SkipsFragment(k) ==
    LET startIndex == strIndexOf(parse.code, "<", Cursor[k])
    IN  \/ charAt(parse.code, startIndex + 1) = ">"
        \/ /\ charAt(parse.code, startIndex + 1) = "/"
           /\ charAt(parse.code, startIndex + 2) = ">"

\* C36: codeIndex is larger at every turn of the lexer loop than at the turn
\* before, whether a tag was taken or a fragment skipped, and stays within
\* the text; so the loop ends for every text, with the list of elements or
\* with a SyntaxError.
C36_CursorIncreases ==
    (parse.phase # "idle" /\ parse.string) =>
        /\ \A k \in 1..Len(Cursor) : Cursor[k] >= 0 /\ Cursor[k] < Len(parse.code)
        /\ \A k \in 1..(Len(Cursor) - 1) : Cursor[k] < Cursor[k + 1]
        /\ Lexed =>
              IF Scan(parse.code, 0, <<>>).error # ""
              THEN LexerFailed
              ELSE parse.elements = Scan(parse.code, 0, <<>>).elements

\* the lexer is through a text in four turns or more, one of which skipped a
\* fragment and the next took a tag
C36_Witness ==
    /\ Lexed
    /\ Len(Cursor) >= 4
    /\ \E k \in 1..(Len(Cursor) - 1) :
          /\ SkipsFragment(k)
          /\ ~SkipsFragment(k + 1)
          /\ Cursor[k + 1] - Cursor[k] \in {2, 3}

\* the names of the Provider tags opened / closed, in the order written
Providers(tag) ==
    LET OfTag(e) == e.tag = tag
        of == SelectSeq(gen.emitted, OfTag)
    IN  [k \in 1..Len(of) |-> of[k].name]

\* C37: when output_app or output_component is over, every Provider tag it
\* opened for useContext and useReducer is closed, by a closing tag of the
\* same name written after it: the closing tags are as many as the opening
\* tags and name them in reverse order.
C37_ProvidersClosed ==
    (gen.phase \in {"done", "thrown"} /\ gen.emitted # <<>>) =>
        /\ Len(Providers("close")) = Len(Providers("open"))
        /\ \A k \in 1..Len(Providers("open")) :
              Providers("close")[Len(Providers("open")) - k + 1] = Providers("open")[k]
        /\ \A k \in 1..Len(gen.emitted), j \in 1..Len(gen.emitted) :
              (gen.emitted[k].tag = "close" /\ gen.emitted[j].tag = "open") => j < k

\* the flags of the element that are true, as the router import names them
FlagsSet ==
    (IF isTrue(gen.attributes, "switch") THEN <<"Switch">> ELSE <<>>)
    \o (IF isTrue(gen.attributes, "route") THEN <<"Route">> ELSE <<>>)
    \o (IF isTrue(gen.attributes, "link") THEN <<"Link">> ELSE <<>>)

\* C39: for an element that has one of the flags switch, route and link and
\* no hooks, output_app and output_component return without an error, and
\* the import from react-router-dom they write names the flags set and
\* nothing else.
C39_RouterImport ==
    (/\ gen.phase \notin {"idle", "imports"}
     /\ gen.loop > 0 \/ gen.phase = "thrown"
     /\ ~hasAttribute(gen.attributes, "hooks")
     /\ FlagsSet # <<>>) =>
        /\ gen.phase = "done"
        /\ gen.imported = FlagsSet

\* C38: after any calls of the tree's methods, an insert under a node that a
\* clear() or a removal took out of the tree among them, size is above 0
\* exactly when the tree has a root; isEmpty() then tells whether there is a
\* root, and an add() of an object that follows returns true.
C38_SizeAndRoot ==
    [][/\ (size' > 0) <=> ~Absent(root')
       /\ (\E v \in Values : Add(v)) => result'.out = "true"]_vars

=============================================================================
